---- MODULE Spec2Model ----
(***************************************************************************)
(* A model of the LTX streaming codec (superfly/ltx-rs): the domain value  *)
(* types, the Header / PageHeader / Trailer record codec, the CRC-64       *)
(* digest threaded through the I/O path, the optional LZ4 frame layer, and *)
(* the Encoder and Decoder sessions.                                       *)
(*                                                                         *)
(* Unsigned integers of the program (u32, u64) are vectors of base-256     *)
(* digits, least significant digit first, so that every value of the full  *)
(* width is representable: U32(1) = <<1,0,0,0>>.  A byte string is a       *)
(* sequence of numbers in 0..255.  Option<T> is a sequence of length 0     *)
(* (None) or 1 (Some).                                                     *)
(***************************************************************************)
EXTENDS Integers, Sequences, FiniteSets, TLC

(***************************************************************************)
(* Bounds of the model.                                                    *)
(***************************************************************************)
\* pages accepted by one encoder session
MaxPages == 2
\* the caller offers the page numbers 1..MaxPageNum (and those around the lock page)
MaxPageNum == 3
\* the caller offers page numbers up to this far beyond the lock page
LockWindow == 2
\* the bytes of a finished file offered for a bit flip: at its start, after the header, at its end
HeadWindow == 50
MidWindow == 6
TailWindow == 21
\* a file is cut at most this far after the start of a page record, or this far before
\* the start of its trailer
CutWindow == 6

(***************************************************************************)
(* Program constants.                                                      *)
(***************************************************************************)
HEADER_SIZE == 100
TRAILER_SIZE == 16
PAGE_HEADER_SIZE == 4
MIN_PAGE_SIZE == 512
MAX_PAGE_SIZE == 65536
\* 0x40000000, the SQLite pending byte offset used by PageNum::lock_page
PENDING_BYTE == 1073741824
\* HeaderFlags::COMPRESS_LZ4
COMPRESS_LZ4 == 1
\* BlockSize::Max64KB of the LZ4 frame encoder
LZ4_BLOCK_SIZE == 65536

(***************************************************************************)
(* Options and byte strings.                                               *)
(***************************************************************************)
None == <<>>
Some(v) == <<v>>
IsSome(o) == Len(o) = 1
IsNone(o) == Len(o) = 0
Unwrap(o) == o[1]

Reverse(s) == [i \in 1..Len(s) |-> s[Len(s) + 1 - i]]
Zeros(n) == [i \in 1..n |-> 0]
Take(s, n) == SubSeq(s, 1, n)
Drop(s, n) == SubSeq(s, n + 1, Len(s))

(***************************************************************************)
(* Fixed-width unsigned integers as little-endian digit vectors.           *)
(***************************************************************************)
\* the u32 with value n, for 0 <= n < 2^31
U32(n) == <<n % 256, (n \div 256) % 256, (n \div 65536) % 256, (n \div 16777216) % 256>>
\* the u64 with value n, for 0 <= n < 2^31
U64(n) == U32(n) \o <<0, 0, 0, 0>>
IsZero(v) == \A i \in 1..Len(v) : v[i] = 0
\* a < b, for digit vectors of the same width
Less(a, b) ==
    \E i \in 1..Len(a) : a[i] < b[i] /\ \A j \in (i + 1)..Len(a) : a[j] = b[j]
\* the value of a digit vector known to be below 2^31
ToNat(v) ==
    LET RECURSIVE Val(_)
        Val(i) == IF i > Len(v) THEN 0 ELSE v[i] + 256 * Val(i + 1)
    IN  Val(1)
FitsNat(v) == \A i \in 4..Len(v) : IF i = 4 THEN v[i] < 128 ELSE v[i] = 0
\* u32::to_be_bytes / u64::to_be_bytes and from_be_bytes
to_be_bytes(v) == Reverse(v)
from_be_bytes(b) == Reverse(b)
\* wrapping addition of a small k to a digit vector: [sum, overflow]
AddWrapping(v, k) ==
    LET RECURSIVE Go(_, _)
        Go(i, carry) ==
            IF i > Len(v) THEN <<>>
            ELSE <<(v[i] + carry) % 256>> \o Go(i + 1, (v[i] + carry) \div 256)
        RECURSIVE Carry(_, _)
        Carry(i, carry) ==
            IF i > Len(v) THEN carry ELSE Carry(i + 1, (v[i] + carry) \div 256)
    IN  [sum |-> Go(1, k), overflow |-> Carry(1, k) > 0]

(***************************************************************************)
(* Bitwise exclusive or of bytes.                                          *)
(***************************************************************************)
RECURSIVE XorBits(_, _, _)
XorBits(a, b, n) ==
    IF n = 0 THEN 0
    ELSE (((a % 2) + (b % 2)) % 2) + 2 * XorBits(a \div 2, b \div 2, n - 1)
XorTable == <<>> \o [i \in 1..256 |-> <<>> \o [j \in 1..256 |-> XorBits(i - 1, j - 1, 8)]]
Xor8(a, b) == XorTable[a + 1][b + 1]
XorW(a, b) == [i \in 1..Len(a) |-> Xor8(a[i], b[i])]

(***************************************************************************)
(* CRC64: crc::Crc::<u64>::new(&crc::CRC_64_GO_ISO), that is width 64,     *)
(* poly 0x1b, init and xorout all ones, input and output reflected.  The   *)
(* register is a u64 digit vector; the table-driven reflected algorithm.   *)
(***************************************************************************)
\* the reflected polynomial 0xD800000000000000
CRC64_POLY_REFLECTED == <<0, 0, 0, 0, 0, 0, 0, 216>>
Shr1(v) == [i \in 1..8 |-> (v[i] \div 2) + (IF i < 8 THEN (v[i + 1] % 2) * 128 ELSE 0)]
RECURSIVE CrcTableEntry(_, _)
CrcTableEntry(v, k) ==
    IF k = 0 THEN v
    ELSE CrcTableEntry(IF v[1] % 2 = 1 THEN XorW(Shr1(v), CRC64_POLY_REFLECTED)
                       ELSE Shr1(v), k - 1)
CrcTable ==
    <<>> \o [i \in 1..256 |-> <<>> \o CrcTableEntry(<<i - 1, 0, 0, 0, 0, 0, 0, 0>>, 8)]
\* one byte into the register: table[(crc ^ b) & 0xff] ^ (crc >> 8)
CrcStep(reg, b) == XorW(CrcTable[Xor8(reg[1], b) + 1], Tail(reg) \o <<0>>)
\* the bytes lo..hi of a string into the register, in order
RECURSIVE CrcRange(_, _, _, _)
CrcRange(reg, bytes, lo, hi) ==
    IF lo > hi THEN reg
    ELSE IF lo = hi THEN CrcStep(reg, bytes[lo])
    ELSE LET mid == (lo + hi) \div 2
         IN  CHOOSE out \in {CrcRange(l, bytes, mid + 1, hi) :
                              l \in {CrcRange(reg, bytes, lo, mid)}} : TRUE
\* CRC64.digest()
Digest_new == <<255, 255, 255, 255, 255, 255, 255, 255>>
\* Digest::update
Digest_update(reg, bytes) == CrcRange(reg, bytes, 1, Len(bytes))
\* Digest::finalize
Digest_finalize(reg) == <<255 - reg[1], 255 - reg[2], 255 - reg[3], 255 - reg[4],
                          255 - reg[5], 255 - reg[6], 255 - reg[7], 255 - reg[8]>>
\* the CRC-64 of a whole byte string
Crc64(bytes) == Digest_finalize(Digest_update(Digest_new, bytes))

(***************************************************************************)
(* Results.  Ok(v) and Err(e): e is a tuple, its first element the name of *)
(* the error variant and the rest the values the variant carries.          *)
(***************************************************************************)
Ok(v) == [ok |-> TRUE, val |-> <<v>>, err |-> <<>>]
Err(e) == [ok |-> FALSE, val |-> <<>>, err |-> e]
ValOf(r) == r.val[1]
\* let v = ...; K(v): the value is computed once and then named
Bind(v, K(_)) == K(v)

(***************************************************************************)
(* Domain value types (types.rs).                                          *)
(***************************************************************************)
\* TXID::ONE, PageNum::ONE
TXID_ONE == U64(1)
PageNum_ONE == U32(1)
\* TXID::new
TXID_new(id) == IF IsZero(id) THEN Err(<<"TXIDError::Zero">>) ELSE Ok(id)
\* Checksum::new keeping the value as it is, the flag not set
Checksum_new_unflagged(s) == s
\* Checksum::NON_ZERO_FLAG is 1 << 63: bit 7 of the most significant digit
\* Checksum::new
Checksum_new(s) == [s EXCEPT ![8] = IF s[8] < 128 THEN s[8] + 128 ELSE s[8]]
\* BitXor for Checksum with | where the code has ^
Checksum_bitxor_or(a, b) ==
    Checksum_new([i \in 1..Len(a) |-> (a[i] + b[i] + Xor8(a[i], b[i])) \div 2])
\* BitXor for Checksum keeping the flag of the left operand only when the right one
\* has none: the plain exclusive or of the two values
Checksum_bitxor_plain(a, b) == XorW(a, b)
\* impl BitXor for Checksum
Checksum_bitxor(a, b) == Checksum_new(XorW(a, b))
\* s & (s - 1) == 0 for a nonzero s: exactly one bit of s is set
OneBit(s) ==
    \E i \in 1..Len(s) :
        /\ s[i] \in {1, 2, 4, 8, 16, 32, 64, 128}
        /\ \A j \in 1..Len(s) : j # i => s[j] = 0
\* PageSize::new testing the range only
PageSize_new_range_only(s) ==
    IF Less(s, U32(MIN_PAGE_SIZE)) \/ Less(U32(MAX_PAGE_SIZE), s)
    THEN Err(<<"PageSizeError", s>>)
    ELSE Ok(ToNat(s))
\* PageSize::new; a PageSize is held as its value, at most 65536
PageSize_new(s) ==
    IF Less(s, U32(MIN_PAGE_SIZE)) \/ Less(U32(MAX_PAGE_SIZE), s) \/ ~OneBit(s)
    THEN Err(<<"PageSizeError", s>>)
    ELSE Ok(ToNat(s))
\* PageNum::new
PageNum_new(n) == IF IsZero(n) THEN Err(<<"PageNumError">>) ELSE Ok(n)
\* PageNum::lock_page without the + 1
lock_page_pending(page_size) == U32(PENDING_BYTE \div page_size)
\* PageNum::lock_page
lock_page(page_size) == U32(PENDING_BYTE \div page_size + 1)
\* impl Add<u32> for PageNum: the u32 sum (the operands of the encoder never overflow)
PageNum_add(p, rhs) == AddWrapping(p, rhs).sum
\* a + b for digit vectors of the same width: the wrapped sum, and whether it overflowed
AddU(a, b) ==
    LET RECURSIVE Go(_, _)
        Go(i, carry) ==
            IF i > Len(a) THEN <<>>
            ELSE <<(a[i] + b[i] + carry) % 256>> \o Go(i + 1, (a[i] + b[i] + carry) \div 256)
        RECURSIVE Carry(_, _)
        Carry(i, carry) ==
            IF i > Len(a) THEN carry ELSE Carry(i + 1, (a[i] + b[i] + carry) \div 256)
    IN  [sum |-> Go(1, 0), overflow |-> Carry(1, 0) > 0]
\* `self.into_inner() + rhs`, then `assert!(sum != 0, msg)`: the outcomes the builds
\* give.  With overflow checks (debug) an overflowing `+` panics; without them
\* (release) the sum wraps and only the assertion stands
Add_outcomes(v, rhs, msg) ==
    (IF AddU(v, rhs).overflow THEN {Err(<<"panic", "attempt to add with overflow">>)} ELSE {})
    \cup {IF IsZero(AddU(v, rhs).sum) THEN Err(<<"panic", msg>>) ELSE Ok(AddU(v, rhs).sum)}
\* impl Add<u64> for TXID
TXID_add_outcomes(txid, rhs) == Add_outcomes(txid, rhs, "TX ID overflow")
\* impl Add<u32> for PageNum
PageNum_add_outcomes(p, rhs) == Add_outcomes(p, rhs, "page number overflow")

(***************************************************************************)
(* Header (ltx.rs).  A timestamp (SystemTime) is the whole milliseconds    *)
(* between it and the Unix epoch as a digit vector of 9 digits (SystemTime *)
(* spans more than 2^64 ms), the nanoseconds below the millisecond, and    *)
(* whether it lies before the epoch.                                       *)
(***************************************************************************)
SystemTime(ms, ns, before) == [millis |-> ms, sub_ms_nanos |-> ns, before_epoch |-> before]
\* HeaderFlags::contains(COMPRESS_LZ4)
Flags_compressed(flags) == flags[1] % 2 = COMPRESS_LZ4
\* HeaderFlags::from_bits: None when a bit other than COMPRESS_LZ4 is set
HeaderFlags_from_bits(flags) ==
    IF flags[1] \in {0, COMPRESS_LZ4} /\ flags[2] = 0 /\ flags[3] = 0 /\ flags[4] = 0
    THEN Some(flags) ELSE None
\* "LTX1"
MAGIC == <<76, 84, 88, 49>>
\* Header::is_snapshot
is_snapshot(hdr) == hdr.min_txid = TXID_ONE
\* Header::validate without the two pre-apply checksum rules
Header_validate_order_only(hdr) ==
    IF Less(hdr.max_txid, hdr.min_txid)
    THEN Err(<<"TXIDOrder", hdr.min_txid, hdr.max_txid>>)
    ELSE Ok(<<>>)
\* Header::validate
Header_validate(hdr) ==
    IF Less(hdr.max_txid, hdr.min_txid)
    THEN Err(<<"TXIDOrder", hdr.min_txid, hdr.max_txid>>)
    ELSE IF is_snapshot(hdr) /\ IsSome(hdr.pre_apply_checksum)
    THEN Err(<<"PreApplyChecksumOnSnapshot">>)
    ELSE IF ~is_snapshot(hdr) /\ IsNone(hdr.pre_apply_checksum)
    THEN Err(<<"NoPreApplyChecksum">>)
    ELSE Ok(<<>>)
\* Header::encode_into leaving the pre-apply checksum field 0
Header_encode_into_no_checksum(hdr) ==
    IF hdr.timestamp.before_epoch
    THEN Err(<<"Timestamp">>)
    ELSE LET timestamp == Take(hdr.timestamp.millis, 8)
             v == Header_validate(hdr)
         IN  IF ~v.ok THEN Err(<<"Validation">> \o v.err)
             ELSE Ok(MAGIC \o to_be_bytes(hdr.flags) \o to_be_bytes(U32(hdr.page_size))
                     \o to_be_bytes(hdr.commit) \o to_be_bytes(hdr.min_txid)
                     \o to_be_bytes(hdr.max_txid) \o to_be_bytes(timestamp)
                     \o Zeros(HEADER_SIZE - 40))
\* Header::encode_into: the 100 bytes handed to the writer, or the error
Header_encode_into(hdr) ==
    IF hdr.timestamp.before_epoch
    THEN Err(<<"Timestamp">>)
    ELSE LET \* as_millis() as u64: the low 64 bits
             timestamp == Take(hdr.timestamp.millis, 8)
             checksum == IF IsSome(hdr.pre_apply_checksum)
                         THEN Unwrap(hdr.pre_apply_checksum) ELSE U64(0)
             v == Header_validate(hdr)
         IN  IF ~v.ok THEN Err(<<"Validation">> \o v.err)
             ELSE Ok(MAGIC \o to_be_bytes(hdr.flags) \o to_be_bytes(U32(hdr.page_size))
                     \o to_be_bytes(hdr.commit) \o to_be_bytes(hdr.min_txid)
                     \o to_be_bytes(hdr.max_txid) \o to_be_bytes(timestamp)
                     \o to_be_bytes(checksum) \o Zeros(HEADER_SIZE - 48))
\* Header::decode_from dropping the flag bits it does not know (from_bits_truncate)
Header_decode_from_truncate(buf) ==
    LET flags == from_be_bytes(SubSeq(buf, 5, 8))
        page_size == PageSize_new(from_be_bytes(SubSeq(buf, 9, 12)))
        commit == PageNum_new(from_be_bytes(SubSeq(buf, 13, 16)))
        min_txid == TXID_new(from_be_bytes(SubSeq(buf, 17, 24)))
        max_txid == TXID_new(from_be_bytes(SubSeq(buf, 25, 32)))
        timestamp == SystemTime(from_be_bytes(SubSeq(buf, 33, 40)) \o <<0>>, 0, FALSE)
        pre_apply_checksum == from_be_bytes(SubSeq(buf, 41, 48))
        hdr == [flags |-> <<flags[1] % 2, 0, 0, 0>>,
                page_size |-> ValOf(page_size),
                commit |-> ValOf(commit),
                min_txid |-> ValOf(min_txid),
                max_txid |-> ValOf(max_txid),
                timestamp |-> timestamp,
                pre_apply_checksum |-> IF ~IsZero(pre_apply_checksum)
                                       THEN Some(Checksum_new(pre_apply_checksum))
                                       ELSE None]
    IN  IF SubSeq(buf, 1, 4) # MAGIC THEN Err(<<"Magic", SubSeq(buf, 1, 4)>>)
        ELSE IF ~page_size.ok THEN Err(<<"PageSize">> \o page_size.err)
        ELSE IF ~commit.ok THEN Err(<<"Commit">> \o commit.err)
        ELSE IF ~min_txid.ok THEN Err(<<"MinTXID">> \o min_txid.err)
        ELSE IF ~max_txid.ok THEN Err(<<"MaxTXID">> \o max_txid.err)
        ELSE IF ~Header_validate(hdr).ok
        THEN Err(<<"Validation">> \o Header_validate(hdr).err)
        ELSE Ok(hdr)
\* Header::decode_from refusing a pre-apply checksum without the flag, as
\* Trailer::decode_from refuses its checksums
Header_decode_from_strict(buf) ==
    LET flags == from_be_bytes(SubSeq(buf, 5, 8))
        page_size == PageSize_new(from_be_bytes(SubSeq(buf, 9, 12)))
        commit == PageNum_new(from_be_bytes(SubSeq(buf, 13, 16)))
        min_txid == TXID_new(from_be_bytes(SubSeq(buf, 17, 24)))
        max_txid == TXID_new(from_be_bytes(SubSeq(buf, 25, 32)))
        \* UNIX_EPOCH.checked_add(Duration::from_millis(t)) is Some for every u64 t
        timestamp == SystemTime(from_be_bytes(SubSeq(buf, 33, 40)) \o <<0>>, 0, FALSE)
        pre_apply_checksum == from_be_bytes(SubSeq(buf, 41, 48))
        hdr == [flags |-> flags,
                page_size |-> ValOf(page_size),
                commit |-> ValOf(commit),
                min_txid |-> ValOf(min_txid),
                max_txid |-> ValOf(max_txid),
                timestamp |-> timestamp,
                pre_apply_checksum |-> IF ~IsZero(pre_apply_checksum)
                                       THEN Some(Checksum_new(pre_apply_checksum))
                                       ELSE None]
    IN  IF SubSeq(buf, 1, 4) # MAGIC THEN Err(<<"Magic", SubSeq(buf, 1, 4)>>)
        ELSE IF IsNone(HeaderFlags_from_bits(flags)) THEN Err(<<"Flags", flags>>)
        ELSE IF ~page_size.ok THEN Err(<<"PageSize">> \o page_size.err)
        ELSE IF ~commit.ok THEN Err(<<"Commit">> \o commit.err)
        ELSE IF ~min_txid.ok THEN Err(<<"MinTXID">> \o min_txid.err)
        ELSE IF ~max_txid.ok THEN Err(<<"MaxTXID">> \o max_txid.err)
        ELSE IF ~IsZero(pre_apply_checksum) /\ Checksum_new(pre_apply_checksum) # pre_apply_checksum
        THEN Err(<<"PreApplyChecksum", pre_apply_checksum>>)
        ELSE IF ~Header_validate(hdr).ok
        THEN Err(<<"Validation">> \o Header_validate(hdr).err)
        ELSE Ok(hdr)
\* Header::decode_from, of the 100 bytes read
Header_decode_from(buf) ==
    LET flags == from_be_bytes(SubSeq(buf, 5, 8))
        page_size == PageSize_new(from_be_bytes(SubSeq(buf, 9, 12)))
        commit == PageNum_new(from_be_bytes(SubSeq(buf, 13, 16)))
        min_txid == TXID_new(from_be_bytes(SubSeq(buf, 17, 24)))
        max_txid == TXID_new(from_be_bytes(SubSeq(buf, 25, 32)))
        \* UNIX_EPOCH.checked_add(Duration::from_millis(t)) is Some for every u64 t
        timestamp == SystemTime(from_be_bytes(SubSeq(buf, 33, 40)) \o <<0>>, 0, FALSE)
        pre_apply_checksum == from_be_bytes(SubSeq(buf, 41, 48))
        hdr == [flags |-> flags,
                page_size |-> ValOf(page_size),
                commit |-> ValOf(commit),
                min_txid |-> ValOf(min_txid),
                max_txid |-> ValOf(max_txid),
                timestamp |-> timestamp,
                pre_apply_checksum |-> IF ~IsZero(pre_apply_checksum)
                                       THEN Some(Checksum_new(pre_apply_checksum))
                                       ELSE None]
    IN  IF SubSeq(buf, 1, 4) # MAGIC THEN Err(<<"Magic", SubSeq(buf, 1, 4)>>)
        ELSE IF IsNone(HeaderFlags_from_bits(flags)) THEN Err(<<"Flags", flags>>)
        ELSE IF ~page_size.ok THEN Err(<<"PageSize">> \o page_size.err)
        ELSE IF ~commit.ok THEN Err(<<"Commit">> \o commit.err)
        ELSE IF ~min_txid.ok THEN Err(<<"MinTXID">> \o min_txid.err)
        ELSE IF ~max_txid.ok THEN Err(<<"MaxTXID">> \o max_txid.err)
        ELSE IF ~Header_validate(hdr).ok
        THEN Err(<<"Validation">> \o Header_validate(hdr).err)
        ELSE Ok(hdr)

(***************************************************************************)
(* Trailer and PageHeader (ltx.rs).                                        *)
(***************************************************************************)
\* Trailer::encode_into: the 16 bytes handed to the writer
Trailer_encode_into(trailer) ==
    to_be_bytes(trailer.post_apply_checksum) \o to_be_bytes(trailer.file_checksum)
\* Trailer::decode_from setting the flag of a checksum that lacks it, as
\* Header::decode_from does
Trailer_decode_from_lenient(buf) ==
    Ok([post_apply_checksum |-> Checksum_new(from_be_bytes(SubSeq(buf, 1, 8))),
        file_checksum |-> Checksum_new(from_be_bytes(SubSeq(buf, 9, 16)))])
\* Trailer::decode_from, of the 16 bytes read
Trailer_decode_from(buf) ==
    LET post_apply_checksum == from_be_bytes(SubSeq(buf, 1, 8))
        file_checksum == from_be_bytes(SubSeq(buf, 9, 16))
        trailer == [post_apply_checksum |-> Checksum_new(post_apply_checksum),
                    file_checksum |-> Checksum_new(file_checksum)]
    IN  IF trailer.post_apply_checksum # post_apply_checksum
        THEN Err(<<"PostApplyChecksum", post_apply_checksum>>)
        ELSE IF trailer.file_checksum # file_checksum
        THEN Err(<<"FileChecksum", file_checksum>>)
        ELSE Ok(trailer)
\* PageHeader::encode_into writing the page number little-endian
PageHeader_encode_into_le(ph) ==
    IF IsSome(ph) THEN Unwrap(ph) ELSE U32(0)
\* PageHeader::encode_into: a PageHeader is an Option<PageNum>
PageHeader_encode_into(ph) ==
    to_be_bytes(IF IsSome(ph) THEN Unwrap(ph) ELSE U32(0))
\* PageHeader::decode_from testing the low byte of the page number only
PageHeader_decode_from_low_byte(buf) ==
    LET page_num == from_be_bytes(buf)
    IN  IF page_num[1] # 0 THEN Ok(Some(page_num)) ELSE Ok(None)
\* PageHeader::decode_from, of the 4 bytes read
PageHeader_decode_from(buf) ==
    LET page_num == from_be_bytes(buf)
    IN  IF ~IsZero(page_num)
        THEN (IF PageNum_new(page_num).ok THEN Ok(Some(ValOf(PageNum_new(page_num))))
              ELSE Err(<<"PageNum">> \o PageNum_new(page_num).err))
        ELSE Ok(None)
\* PageChecksum::page_checksum
page_checksum(data, pgno) ==
    Checksum_new(Digest_finalize(Digest_update(Digest_update(Digest_new, to_be_bytes(pgno)),
                                               data)))

(***************************************************************************)
(* The LZ4 frame layer (lz4_flex FrameEncoder / FrameDecoder), as the      *)
(* encoder and decoder use it.  A frame is the magic number and the frame  *)
(* descriptor (64KB independent blocks, no checksums), then the blocks,    *)
(* each a little-endian u32 size and its data, then a zero size as the end *)
(* mark.  Block data is stored, which the frame format marks by the top    *)
(* bit of the size.                                                        *)
(***************************************************************************)
\* magic 0x184D2204 (little-endian), FLG 0x60, BD 0x40, header checksum 0x82
LZ4_FRAME_HEADER == <<4, 34, 77, 24, 96, 64, 130>>
LZ4_END_MARK == <<0, 0, 0, 0>>
\* one stored block
LZ4_block(data) ==
    [U32(Len(data)) EXCEPT ![4] = @ + 128] \o data
\* the full blocks a buffer gives, and what stays buffered
RECURSIVE LZ4_full_blocks(_)
LZ4_full_blocks(data) ==
    IF Len(data) < LZ4_BLOCK_SIZE THEN [out |-> <<>>, rest |-> data]
    ELSE LET r == LZ4_full_blocks(Drop(data, LZ4_BLOCK_SIZE))
         IN  [out |-> LZ4_block(Take(data, LZ4_BLOCK_SIZE)) \o r.out, rest |-> r.rest]

\* LTXWriter::new: the writer's state next to the sink it owns
LTXWriter_new(compressed) ==
    [compressed |-> compressed, frame_open |-> FALSE, pending |-> <<>>]
\* LTXWriter::write (write_all: neither branch writes short): the writer and the sink after it
LTXWriter_write(lw, sink, bytes) ==
    IF lw.compressed
    THEN LET b == LZ4_full_blocks(lw.pending \o bytes)
         IN  [w |-> [lw EXCEPT !.frame_open = TRUE, !.pending = b.rest],
              sink |-> sink \o (IF lw.frame_open THEN <<>> ELSE LZ4_FRAME_HEADER) \o b.out]
    ELSE [w |-> lw, sink |-> sink \o bytes]
\* LTXWriter::finish: the sink after it
LTXWriter_finish(lw, sink) ==
    IF lw.compressed
    THEN sink \o (IF lw.frame_open THEN <<>> ELSE LZ4_FRAME_HEADER)
              \o (IF Len(lw.pending) > 0 THEN LZ4_block(lw.pending) ELSE <<>>)
              \o LZ4_END_MARK
    ELSE sink

(***************************************************************************)
(* Encoder (encoder.rs).  The sink is the caller's; every operation gives  *)
(* its result, the encoder after it and the sink after it.  fed is the     *)
(* history of the bytes given to the digest.                               *)
(***************************************************************************)
\* CrcDigestWrite::write feeding the digest first, with the whole buffer
CrcDigestWrite_write_digest_first(cw, n) ==
    IF cw.pc = 0
    THEN [cw EXCEPT !.digest = Digest_update(@, cw.buf), !.fed = @ \o cw.buf,
                    !.n = n, !.pc = 1]
    ELSE [cw EXCEPT !.inner = @ \o Take(cw.buf, cw.n), !.buf = Drop(@, cw.n),
                    !.res = Ok(cw.n), !.pc = 0]
\* CrcDigestWrite::write updating the digest with buf where the code has buf[..written]
CrcDigestWrite_write_whole_buf(cw, n) ==
    IF cw.pc = 0
    THEN [cw EXCEPT !.inner = @ \o Take(cw.buf, n), !.n = n, !.pc = 1]
    ELSE [cw EXCEPT !.digest = Digest_update(@, cw.buf), !.fed = @ \o cw.buf,
                    !.buf = Drop(@, cw.n), !.res = Ok(cw.n), !.pc = 0]
\* CrcDigestWrite::write over any inner stream, statement by statement:
\* `let written = self.inner.write(buf)?` (the stream accepts n bytes), then
\* `self.digest.update(&buf[..written]); Ok(written)`, after which the caller
\* (write_all) goes on with buf[written..]
CrcDigestWrite_write(cw, n) ==
    IF cw.pc = 0
    THEN [cw EXCEPT !.inner = @ \o Take(cw.buf, n), !.n = n, !.pc = 1]
    ELSE [cw EXCEPT !.digest = Digest_update(@, Take(cw.buf, cw.n)),
                    !.fed = @ \o Take(cw.buf, cw.n),
                    !.buf = Drop(@, cw.n), !.res = Ok(cw.n), !.pc = 0]
\* CrcDigestRead::read over any inner stream, statement by statement:
\* `let read = self.inner.read(buf)?` (the stream returns its next n bytes), then
\* `self.digest.update(&buf[..read]); Ok(read)`
CrcDigestRead_read(cr, n) ==
    IF cr.pc = 0
    THEN [cr EXCEPT !.inner = @ \o Take(cr.buf, n), !.n = n, !.pc = 1]
    ELSE [cr EXCEPT !.digest = Digest_update(@, SubSeq(cr.inner, Len(cr.inner) - cr.n + 1,
                                                       Len(cr.inner))),
                    !.fed = @ \o SubSeq(cr.inner, Len(cr.inner) - cr.n + 1, Len(cr.inner)),
                    !.buf = Drop(@, cr.n), !.res = Ok(cr.n), !.pc = 0]
\* CrcDigestWrite::write over the LTXWriter: inner.write, then digest.update
CrcDigestWrite_write_all(e, sink, bytes) ==
    Bind(LTXWriter_write(e.w, sink, bytes), LAMBDA o :
        [enc |-> [e EXCEPT !.w = o.w, !.digest = Digest_update(e.digest, bytes),
                           !.fed = e.fed \o bytes],
         sink |-> o.sink])
\* Encoder::new with the LTXWriter made first and the header written through it
Encoder_new_header_compressed(sink, hdr) ==
    Bind(Header_encode_into(hdr), LAMBDA h :
        IF ~h.ok THEN [res |-> Err(<<"Header">> \o h.err), enc |-> None, sink |-> sink]
        ELSE Bind(LTXWriter_write(LTXWriter_new(Flags_compressed(hdr.flags)), sink, ValOf(h)),
                  LAMBDA o :
             [res |-> Ok(<<>>),
              enc |-> Some([w |-> o.w,
                            digest |-> Digest_update(Digest_new, ValOf(h)),
                            page_size |-> hdr.page_size,
                            is_snapshot |-> is_snapshot(hdr),
                            last_page_num |-> None,
                            fed |-> ValOf(h)]),
              sink |-> o.sink]))
\* Encoder::new with a header encoder that writes the magic before it validates
Encoder_new_magic_first(sink, hdr) ==
    Bind(Header_encode_into(hdr), LAMBDA h :
        IF ~h.ok
        THEN [res |-> Err(<<"Header">> \o h.err), enc |-> None,
              sink |-> IF hdr.timestamp.before_epoch THEN sink ELSE sink \o MAGIC]
        ELSE [res |-> Ok(<<>>),
              enc |-> Some([w |-> LTXWriter_new(Flags_compressed(hdr.flags)),
                            digest |-> Digest_update(Digest_new, ValOf(h)),
                            page_size |-> hdr.page_size,
                            is_snapshot |-> is_snapshot(hdr),
                            last_page_num |-> None,
                            fed |-> ValOf(h)]),
              sink |-> sink \o ValOf(h)])
\* Encoder::new
Encoder_new(sink, hdr) ==
    Bind(Header_encode_into(hdr), LAMBDA h :
        IF ~h.ok THEN [res |-> Err(<<"Header">> \o h.err), enc |-> None, sink |-> sink]
        ELSE [res |-> Ok(<<>>),
              enc |-> Some([w |-> LTXWriter_new(Flags_compressed(hdr.flags)),
                            digest |-> Digest_update(Digest_new, ValOf(h)),
                            page_size |-> hdr.page_size,
                            is_snapshot |-> is_snapshot(hdr),
                            last_page_num |-> None,
                            fed |-> ValOf(h)]),
              sink |-> sink \o ValOf(h)])
\* Encoder::validate_page_num holding a snapshot to ascending pages only
validate_page_num_gaps(e, page_num) ==
    IF page_num = lock_page(e.page_size) THEN Err(<<"LockPage", page_num>>)
    ELSE IF e.is_snapshot /\ IsNone(e.last_page_num) /\ page_num # PageNum_ONE
    THEN Err(<<"FirstSnapshotPage">>)
    ELSE IF IsSome(e.last_page_num) /\ ~Less(Unwrap(e.last_page_num), page_num)
    THEN Err(<<"OutOfOrderPage", Unwrap(e.last_page_num), page_num>>)
    ELSE Ok(<<>>)
\* Encoder::validate_page_num comparing with > where the code has >=
validate_page_num_repeat(e, page_num) ==
    IF page_num = lock_page(e.page_size) THEN Err(<<"LockPage", page_num>>)
    ELSE IF e.is_snapshot
    THEN (IF IsNone(e.last_page_num) /\ page_num # PageNum_ONE
          THEN Err(<<"FirstSnapshotPage">>)
          ELSE IF IsSome(e.last_page_num)
                  /\ PageNum_add(Unwrap(e.last_page_num), 1) # page_num
          THEN Err(<<"NonsequentialPages", Unwrap(e.last_page_num), page_num>>)
          ELSE Ok(<<>>))
    ELSE IF IsSome(e.last_page_num) /\ Less(page_num, Unwrap(e.last_page_num))
    THEN Err(<<"OutOfOrderPage", Unwrap(e.last_page_num), page_num>>)
    ELSE Ok(<<>>)
\* Encoder::validate_page_num with the lock page check after the ordering checks
validate_page_num_late_lock(e, page_num) ==
    IF e.is_snapshot /\ IsNone(e.last_page_num) /\ page_num # PageNum_ONE
    THEN Err(<<"FirstSnapshotPage">>)
    ELSE IF e.is_snapshot /\ IsSome(e.last_page_num)
            /\ PageNum_add(Unwrap(e.last_page_num), 1) # page_num
    THEN Err(<<"NonsequentialPages", Unwrap(e.last_page_num), page_num>>)
    ELSE IF ~e.is_snapshot /\ IsSome(e.last_page_num)
            /\ ~Less(Unwrap(e.last_page_num), page_num)
    THEN Err(<<"OutOfOrderPage", Unwrap(e.last_page_num), page_num>>)
    ELSE IF page_num = lock_page(e.page_size) THEN Err(<<"LockPage", page_num>>)
    ELSE Ok(<<>>)
\* Encoder::validate_page_num without the rule for the first page of a snapshot
validate_page_num_any_first(e, page_num) ==
    IF page_num = lock_page(e.page_size) THEN Err(<<"LockPage", page_num>>)
    ELSE IF e.is_snapshot /\ IsSome(e.last_page_num)
            /\ PageNum_add(Unwrap(e.last_page_num), 1) # page_num
    THEN Err(<<"NonsequentialPages", Unwrap(e.last_page_num), page_num>>)
    ELSE IF ~e.is_snapshot /\ IsSome(e.last_page_num)
            /\ ~Less(Unwrap(e.last_page_num), page_num)
    THEN Err(<<"OutOfOrderPage", Unwrap(e.last_page_num), page_num>>)
    ELSE Ok(<<>>)
\* Encoder::validate_page_num
validate_page_num(e, page_num) ==
    LET lock == lock_page(e.page_size)
        last == Unwrap(e.last_page_num)
    IN  IF page_num = lock THEN Err(<<"LockPage", page_num>>)
        ELSE IF e.is_snapshot
        THEN (IF IsNone(e.last_page_num) /\ page_num # PageNum_ONE
              THEN Err(<<"FirstSnapshotPage">>)
              ELSE IF IsSome(e.last_page_num)
                      /\ (PageNum_add(last, 1) # page_num
                          \/ (PageNum_add(last, 1) = lock /\ PageNum_add(last, 2) # page_num))
              THEN Err(<<"NonsequentialPages", last, page_num>>)
              ELSE Ok(<<>>))
        ELSE IF IsSome(e.last_page_num) /\ ~Less(last, page_num)
        THEN Err(<<"OutOfOrderPage", last, page_num>>)
        ELSE Ok(<<>>)
\* Encoder::encode_page writing the page header before it tests the length of the data
Encoder_encode_page_header_first(e, sink, page_num, data) ==
    Bind(validate_page_num(e, page_num), LAMBDA v :
        IF ~v.ok THEN [res |-> v, enc |-> e, sink |-> sink]
        ELSE Bind(CrcDigestWrite_write_all(e, sink, PageHeader_encode_into(Some(page_num))),
                  LAMBDA o1 :
             IF Len(data) # e.page_size
             THEN [res |-> Err(<<"InvalidBufferSize", Len(data), e.page_size>>),
                   enc |-> o1.enc, sink |-> o1.sink]
             ELSE Bind(CrcDigestWrite_write_all(o1.enc, o1.sink, data), LAMBDA o2 :
                [res |-> Ok(<<>>),
                 enc |-> [o2.enc EXCEPT !.last_page_num = Some(page_num)],
                 sink |-> o2.sink])))
\* Encoder::encode_page testing the length of the data before the page number
Encoder_encode_page_size_first(e, sink, page_num, data) ==
    IF Len(data) # e.page_size
    THEN [res |-> Err(<<"InvalidBufferSize", Len(data), e.page_size>>),
          enc |-> e, sink |-> sink]
    ELSE Bind(validate_page_num(e, page_num), LAMBDA v :
        IF ~v.ok THEN [res |-> v, enc |-> e, sink |-> sink]
        ELSE Bind(CrcDigestWrite_write_all(e, sink, PageHeader_encode_into(Some(page_num))),
                  LAMBDA o1 :
             Bind(CrcDigestWrite_write_all(o1.enc, o1.sink, data), LAMBDA o2 :
                [res |-> Ok(<<>>),
                 enc |-> [o2.enc EXCEPT !.last_page_num = Some(page_num)],
                 sink |-> o2.sink])))
\* Encoder::encode_page recording the page number before it tests the length of the data
Encoder_encode_page_last_first(e, sink, page_num, data) ==
    Bind(validate_page_num(e, page_num), LAMBDA v :
        IF ~v.ok THEN [res |-> v, enc |-> e, sink |-> sink]
        ELSE IF Len(data) # e.page_size
        THEN [res |-> Err(<<"InvalidBufferSize", Len(data), e.page_size>>),
              enc |-> [e EXCEPT !.last_page_num = Some(page_num)], sink |-> sink]
        ELSE Bind(CrcDigestWrite_write_all(e, sink, PageHeader_encode_into(Some(page_num))),
                  LAMBDA o1 :
             Bind(CrcDigestWrite_write_all(o1.enc, o1.sink, data), LAMBDA o2 :
                [res |-> Ok(<<>>),
                 enc |-> [o2.enc EXCEPT !.last_page_num = Some(page_num)],
                 sink |-> o2.sink])))
\* Encoder::encode_page
Encoder_encode_page(e, sink, page_num, data) ==
    Bind(validate_page_num(e, page_num), LAMBDA v :
        IF ~v.ok THEN [res |-> v, enc |-> e, sink |-> sink]
        ELSE IF Len(data) # e.page_size
        THEN [res |-> Err(<<"InvalidBufferSize", Len(data), e.page_size>>),
              enc |-> e, sink |-> sink]
        ELSE Bind(CrcDigestWrite_write_all(e, sink, PageHeader_encode_into(Some(page_num))),
                  LAMBDA o1 :
             Bind(CrcDigestWrite_write_all(o1.enc, o1.sink, data), LAMBDA o2 :
                [res |-> Ok(<<>>),
                 enc |-> [o2.enc EXCEPT !.last_page_num = Some(page_num)],
                 sink |-> o2.sink])))
\* Encoder::finish leaving the post-apply checksum out of the digest
Encoder_finish_no_fold(e, sink, post_apply_checksum) ==
    Bind(CrcDigestWrite_write_all(e, sink, PageHeader_encode_into(None)), LAMBDA o1 :
    Bind([post_apply_checksum |-> post_apply_checksum,
          file_checksum |-> Checksum_new(Digest_finalize(o1.enc.digest))], LAMBDA trailer :
        [res |-> Ok(trailer),
         enc |-> o1.enc,
         sink |-> LTXWriter_finish(o1.enc.w, o1.sink) \o Trailer_encode_into(trailer)]))
\* Encoder::finish: the result is the Trailer
Encoder_finish(e, sink, post_apply_checksum) ==
    Bind(CrcDigestWrite_write_all(e, sink, PageHeader_encode_into(None)), LAMBDA o1 :
    Bind(LTXWriter_finish(o1.enc.w, o1.sink), LAMBDA writer :
    Bind(Digest_update(o1.enc.digest, to_be_bytes(post_apply_checksum)), LAMBDA digest :
    Bind([post_apply_checksum |-> post_apply_checksum,
          file_checksum |-> Checksum_new(Digest_finalize(digest))], LAMBDA trailer :
        [res |-> Ok(trailer),
         enc |-> [o1.enc EXCEPT !.digest = digest,
                                !.fed = o1.enc.fed \o to_be_bytes(post_apply_checksum)],
         sink |-> writer \o Trailer_encode_into(trailer)]))))

(***************************************************************************)
(* Decoder (decoder.rs).  The source is a byte string and a position in    *)
(* it.  A read gives the bytes it delivered, which may be fewer than asked *)
(* when it fails, and the reader after it.  seen is the history of the     *)
(* bytes given to the digest.                                              *)
(***************************************************************************)
Min(a, b) == IF a < b THEN a ELSE b
\* <&[u8] as Read>::read_exact of n bytes at position pos
Slice_read_exact(src, pos, n) ==
    LET k == Min(n, Len(src) - pos)
    IN  [bytes |-> SubSeq(src, pos + 1, pos + k), pos |-> pos + k,
         err |-> IF k < n THEN <<"UnexpectedEof">> ELSE <<>>]
\* LTXReader::new: the reader's state next to the source it owns
LTXReader_new(pos, compressed) ==
    [compressed |-> compressed, pos |-> pos, frame_open |-> FALSE, frame_done |-> FALSE,
     dst |-> <<>>]
\* FrameDecoder::read until n bytes are delivered, the frame ends or an error occurs
RECURSIVE FrameDecoder_read_exact(_, _, _, _)
FrameDecoder_read_exact(lr, src, n, got) ==
    IF n = 0 THEN [bytes |-> got, r |-> lr, err |-> <<>>]
    ELSE IF Len(lr.dst) > 0
    THEN Bind(Min(n, Len(lr.dst)), LAMBDA k :
            FrameDecoder_read_exact([lr EXCEPT !.dst = Drop(lr.dst, k)], src, n - k,
                                    got \o Take(lr.dst, k)))
    ELSE IF lr.frame_done
    THEN [bytes |-> got, r |-> lr, err |-> <<"UnexpectedEof">>]
    ELSE IF ~lr.frame_open
    THEN Bind(Slice_read_exact(src, lr.pos, Len(LZ4_FRAME_HEADER)), LAMBDA h :
            IF Len(h.bytes) = 0
            THEN [bytes |-> got, r |-> lr, err |-> <<"UnexpectedEof">>]
            ELSE IF h.err # <<>>
            THEN [bytes |-> got, r |-> [lr EXCEPT !.pos = h.pos], err |-> h.err]
            ELSE IF h.bytes # LZ4_FRAME_HEADER
            THEN [bytes |-> got, r |-> [lr EXCEPT !.pos = h.pos], err |-> <<"Lz4Frame">>]
            ELSE FrameDecoder_read_exact([lr EXCEPT !.pos = h.pos, !.frame_open = TRUE],
                                         src, n, got))
    ELSE Bind(Slice_read_exact(src, lr.pos, 4), LAMBDA s :
            IF s.err # <<>>
            THEN [bytes |-> got, r |-> [lr EXCEPT !.pos = s.pos], err |-> s.err]
            ELSE IF s.bytes = LZ4_END_MARK
            THEN [bytes |-> got, r |-> [lr EXCEPT !.pos = s.pos, !.frame_done = TRUE],
                  err |-> <<"UnexpectedEof">>]
            ELSE Bind(ToNat(<<s.bytes[1], s.bytes[2], s.bytes[3], s.bytes[4] % 128>>),
                      LAMBDA size :
                 IF s.bytes[4] < 128 \/ size > LZ4_BLOCK_SIZE
                 THEN [bytes |-> got, r |-> [lr EXCEPT !.pos = s.pos], err |-> <<"Lz4Block">>]
                 ELSE Bind(Slice_read_exact(src, s.pos, size), LAMBDA d :
                      IF d.err # <<>>
                      THEN [bytes |-> got, r |-> [lr EXCEPT !.pos = d.pos], err |-> d.err]
                      ELSE FrameDecoder_read_exact(
                               [lr EXCEPT !.pos = d.pos, !.dst = d.bytes], src, n, got))))
\* LTXReader::read (read_exact)
LTXReader_read_exact(lr, src, n) ==
    IF lr.compressed THEN FrameDecoder_read_exact(lr, src, n, <<>>)
    ELSE Bind(Slice_read_exact(src, lr.pos, n), LAMBDA s :
            [bytes |-> s.bytes, r |-> [lr EXCEPT !.pos = s.pos], err |-> s.err])
\* LTXReader::finish handing back the raw source where it stands, the end of the
\* frame not read
LTXReader_finish_no_end(lr, src) == [pos |-> lr.pos, err |-> <<>>]
\* LTXReader::finish: the position of the raw source after the frame, or the error
LTXReader_finish(lr, src) ==
    IF lr.compressed
    THEN Bind(FrameDecoder_read_exact(lr, src, 1, <<>>), LAMBDA o :
            IF o.err = <<"UnexpectedEof">> THEN [pos |-> o.r.pos, err |-> <<>>]
            ELSE IF o.err # <<>> THEN [pos |-> o.r.pos, err |-> o.err]
            ELSE [pos |-> o.r.pos, err |-> <<"expected lz4 end frame">>])
    ELSE [pos |-> lr.pos, err |-> <<>>]
\* CrcDigestRead::read over the LTXReader: inner.read, then digest.update of what was read
CrcDigestRead_read_exact(d, src, n) ==
    Bind(LTXReader_read_exact(d.r, src, n), LAMBDA o :
        [bytes |-> o.bytes, err |-> o.err,
         dec |-> [d EXCEPT !.r = o.r, !.digest = Digest_update(d.digest, o.bytes),
                           !.seen = d.seen \o o.bytes]])
\* Decoder::new: the header is read from the raw source through the digest
Decoder_new(src) ==
    Bind(Slice_read_exact(src, 0, HEADER_SIZE), LAMBDA s :
        IF s.err # <<>> THEN [res |-> Err(<<"Header", "Read">> \o s.err), dec |-> None]
        ELSE Bind(Header_decode_from(s.bytes), LAMBDA hdr :
            IF ~hdr.ok THEN [res |-> Err(<<"Header">> \o hdr.err), dec |-> None]
            ELSE [res |-> hdr,
                  dec |-> Some([r |-> LTXReader_new(s.pos,
                                                    Flags_compressed(ValOf(hdr).flags)),
                                digest |-> Digest_update(Digest_new, s.bytes),
                                page_size |-> ValOf(hdr).page_size,
                                pages_done |-> FALSE,
                                seen |-> s.bytes])]))
\* Decoder::decode_page testing the buffer length before pages_done
Decoder_decode_page_size_first(d, src, len) ==
    IF len # d.page_size
    THEN [res |-> Err(<<"InvalidBufferSize", len, d.page_size>>), dec |-> d, data |-> <<>>]
    ELSE IF d.pages_done THEN [res |-> Ok(None), dec |-> d, data |-> <<>>]
    ELSE Bind(CrcDigestRead_read_exact(d, src, PAGE_HEADER_SIZE), LAMBDA h :
        IF h.err # <<>>
        THEN [res |-> Err(<<"PageHeader", "Read">> \o h.err), dec |-> h.dec, data |-> <<>>]
        ELSE Bind(PageHeader_decode_from(h.bytes), LAMBDA header :
            IF ~header.ok
            THEN [res |-> Err(<<"PageHeader">> \o header.err), dec |-> h.dec, data |-> <<>>]
            ELSE IF IsNone(ValOf(header))
            THEN [res |-> Ok(None), dec |-> [h.dec EXCEPT !.pages_done = TRUE],
                  data |-> <<>>]
            ELSE Bind(CrcDigestRead_read_exact(h.dec, src, len), LAMBDA p :
                IF p.err # <<>>
                THEN [res |-> Err(<<"Read">> \o p.err), dec |-> p.dec, data |-> p.bytes]
                ELSE [res |-> Ok(ValOf(header)), dec |-> p.dec, data |-> p.bytes])))
\* Decoder::decode_page reading on after the sentinel: pages_done is not consulted
Decoder_decode_page_reads_on(d, src, len) ==
    IF len # d.page_size
    THEN [res |-> Err(<<"InvalidBufferSize", len, d.page_size>>), dec |-> d, data |-> <<>>]
    ELSE Bind(CrcDigestRead_read_exact(d, src, PAGE_HEADER_SIZE), LAMBDA h :
        IF h.err # <<>>
        THEN [res |-> Err(<<"PageHeader", "Read">> \o h.err), dec |-> h.dec, data |-> <<>>]
        ELSE Bind(PageHeader_decode_from(h.bytes), LAMBDA header :
            IF ~header.ok
            THEN [res |-> Err(<<"PageHeader">> \o header.err), dec |-> h.dec, data |-> <<>>]
            ELSE IF IsNone(ValOf(header))
            THEN [res |-> Ok(None), dec |-> [h.dec EXCEPT !.pages_done = TRUE],
                  data |-> <<>>]
            ELSE Bind(CrcDigestRead_read_exact(h.dec, src, len), LAMBDA p :
                IF p.err # <<>>
                THEN [res |-> Err(<<"Read">> \o p.err), dec |-> p.dec, data |-> p.bytes]
                ELSE [res |-> Ok(ValOf(header)), dec |-> p.dec, data |-> p.bytes])))
\* Decoder::decode_page with a buffer of len bytes: the result is Option<PageNum>,
\* data the bytes left in the caller's buffer
\* Decoder::decode_page refusing the lock page, as the encoder does
Decoder_decode_page_no_lock(d, src, len) ==
    IF d.pages_done THEN [res |-> Ok(None), dec |-> d, data |-> <<>>]
    ELSE IF len # d.page_size
    THEN [res |-> Err(<<"InvalidBufferSize", len, d.page_size>>), dec |-> d, data |-> <<>>]
    ELSE Bind(CrcDigestRead_read_exact(d, src, PAGE_HEADER_SIZE), LAMBDA h :
        IF h.err # <<>>
        THEN [res |-> Err(<<"PageHeader", "Read">> \o h.err), dec |-> h.dec, data |-> <<>>]
        ELSE Bind(PageHeader_decode_from(h.bytes), LAMBDA header :
            IF ~header.ok
            THEN [res |-> Err(<<"PageHeader">> \o header.err), dec |-> h.dec, data |-> <<>>]
            ELSE IF IsNone(ValOf(header))
            THEN [res |-> Ok(None), dec |-> [h.dec EXCEPT !.pages_done = TRUE],
                  data |-> <<>>]
            ELSE IF Unwrap(ValOf(header)) = lock_page(d.page_size)
            THEN [res |-> Err(<<"LockPage", Unwrap(ValOf(header))>>), dec |-> h.dec,
                  data |-> <<>>]
            ELSE Bind(CrcDigestRead_read_exact(h.dec, src, len), LAMBDA p :
                IF p.err # <<>>
                THEN [res |-> Err(<<"Read">> \o p.err), dec |-> p.dec, data |-> p.bytes]
                ELSE [res |-> Ok(ValOf(header)), dec |-> p.dec, data |-> p.bytes])))
\* Decoder::decode_page taking the end of the source, where a page header should start,
\* for the end of the pages
Decoder_decode_page_eof_ends(d, src, len) ==
    IF d.pages_done THEN [res |-> Ok(None), dec |-> d, data |-> <<>>]
    ELSE IF len # d.page_size
    THEN [res |-> Err(<<"InvalidBufferSize", len, d.page_size>>), dec |-> d, data |-> <<>>]
    ELSE Bind(CrcDigestRead_read_exact(d, src, PAGE_HEADER_SIZE), LAMBDA h :
        IF h.err # <<>> /\ h.bytes = <<>>
        THEN [res |-> Ok(None), dec |-> [h.dec EXCEPT !.pages_done = TRUE], data |-> <<>>]
        ELSE IF h.err # <<>>
        THEN [res |-> Err(<<"PageHeader", "Read">> \o h.err), dec |-> h.dec, data |-> <<>>]
        ELSE Bind(PageHeader_decode_from(h.bytes), LAMBDA header :
            IF ~header.ok
            THEN [res |-> Err(<<"PageHeader">> \o header.err), dec |-> h.dec, data |-> <<>>]
            ELSE IF IsNone(ValOf(header))
            THEN [res |-> Ok(None), dec |-> [h.dec EXCEPT !.pages_done = TRUE],
                  data |-> <<>>]
            ELSE Bind(CrcDigestRead_read_exact(h.dec, src, len), LAMBDA p :
                IF p.err # <<>>
                THEN [res |-> Err(<<"Read">> \o p.err), dec |-> p.dec, data |-> p.bytes]
                ELSE [res |-> Ok(ValOf(header)), dec |-> p.dec, data |-> p.bytes])))
\* Decoder::decode_page
Decoder_decode_page(d, src, len) ==
    IF d.pages_done THEN [res |-> Ok(None), dec |-> d, data |-> <<>>]
    ELSE IF len # d.page_size
    THEN [res |-> Err(<<"InvalidBufferSize", len, d.page_size>>), dec |-> d, data |-> <<>>]
    ELSE Bind(CrcDigestRead_read_exact(d, src, PAGE_HEADER_SIZE), LAMBDA h :
        IF h.err # <<>>
        THEN [res |-> Err(<<"PageHeader", "Read">> \o h.err), dec |-> h.dec, data |-> <<>>]
        ELSE Bind(PageHeader_decode_from(h.bytes), LAMBDA header :
            IF ~header.ok
            THEN [res |-> Err(<<"PageHeader">> \o header.err), dec |-> h.dec, data |-> <<>>]
            ELSE IF IsNone(ValOf(header))
            THEN [res |-> Ok(None), dec |-> [h.dec EXCEPT !.pages_done = TRUE],
                  data |-> <<>>]
            ELSE Bind(CrcDigestRead_read_exact(h.dec, src, len), LAMBDA p :
                IF p.err # <<>>
                THEN [res |-> Err(<<"Read">> \o p.err), dec |-> p.dec, data |-> p.bytes]
                ELSE [res |-> Ok(ValOf(header)), dec |-> p.dec, data |-> p.bytes])))
\* Decoder::finish comparing the digest as it stands, the post-apply checksum left out
Decoder_finish_no_fold(d, src) ==
    Bind(LTXReader_finish(d.r, src), LAMBDA reader :
    Bind(Slice_read_exact(src, reader.pos, TRAILER_SIZE), LAMBDA t :
    Bind(Trailer_decode_from(t.bytes), LAMBDA trailer :
        IF reader.err # <<>> THEN [res |-> Err(<<"Read">> \o reader.err), digest |-> d.digest]
        ELSE IF t.err # <<>>
        THEN [res |-> Err(<<"Trailer", "Read">> \o t.err), digest |-> d.digest]
        ELSE IF ~trailer.ok
        THEN [res |-> Err(<<"Trailer">> \o trailer.err), digest |-> d.digest]
        ELSE IF Checksum_new(Digest_finalize(d.digest)) # ValOf(trailer).file_checksum
        THEN [res |-> Err(<<"FileChecksumMismatch">>), digest |-> d.digest]
        ELSE [res |-> trailer, digest |-> d.digest])))
\* Decoder::finish returning the trailer without comparing checksums
Decoder_finish_unchecked(d, src) ==
    Bind(LTXReader_finish(d.r, src), LAMBDA reader :
    Bind(Slice_read_exact(src, reader.pos, TRAILER_SIZE), LAMBDA t :
    Bind(Trailer_decode_from(t.bytes), LAMBDA trailer :
        IF reader.err # <<>> THEN [res |-> Err(<<"Read">> \o reader.err), digest |-> d.digest]
        ELSE IF t.err # <<>>
        THEN [res |-> Err(<<"Trailer", "Read">> \o t.err), digest |-> d.digest]
        ELSE IF ~trailer.ok
        THEN [res |-> Err(<<"Trailer">> \o trailer.err), digest |-> d.digest]
        ELSE [res |-> trailer, digest |-> d.digest])))
\* Decoder::finish: the result is the Trailer
Decoder_finish(d, src) ==
    Bind(LTXReader_finish(d.r, src), LAMBDA reader :
        IF reader.err # <<>>
        THEN [res |-> Err(<<"Read">> \o reader.err), digest |-> d.digest]
        ELSE Bind(Slice_read_exact(src, reader.pos, TRAILER_SIZE), LAMBDA t :
            IF t.err # <<>>
            THEN [res |-> Err(<<"Trailer", "Read">> \o t.err), digest |-> d.digest]
            ELSE Bind(Trailer_decode_from(t.bytes), LAMBDA trailer :
                IF ~trailer.ok
                THEN [res |-> Err(<<"Trailer">> \o trailer.err), digest |-> d.digest]
                ELSE Bind(Digest_update(d.digest,
                                        to_be_bytes(ValOf(trailer).post_apply_checksum)),
                          LAMBDA digest :
                    IF Checksum_new(Digest_finalize(digest)) # ValOf(trailer).file_checksum
                    THEN [res |-> Err(<<"FileChecksumMismatch">>), digest |-> digest]
                    ELSE [res |-> trailer, digest |-> digest]))))

(***************************************************************************)
(* The inputs the callers offer.                                           *)
(***************************************************************************)
\* a timestamp of whole milliseconds, one with nanoseconds below the millisecond,
\* one whose milliseconds need more than 64 bits, one before the epoch
TsWhole == SystemTime(U64(86400000) \o <<0>>, 0, FALSE)
TsSubMs == SystemTime(U64(86400000) \o <<0>>, 123456, FALSE)
TsHuge == SystemTime(U64(86400000) \o <<1>>, 0, FALSE)
TsBefore == SystemTime(U64(1000) \o <<0>>, 0, TRUE)
MkHeader(flags, min, max, ts, pre) ==
    [flags |-> U32(flags), page_size |-> MIN_PAGE_SIZE, commit |-> U32(MaxPageNum),
     min_txid |-> U64(min), max_txid |-> U64(max), timestamp |-> ts,
     pre_apply_checksum |-> pre]
PreApply == Some(Checksum_new(U64(5)))
\* the headers of the sessions that carry pages: snapshot and incremental, plain and compressed
SessionHeaders ==
    {MkHeader(f, 1, 1, TsWhole, None) : f \in {0, COMPRESS_LZ4}}
    \cup {MkHeader(f, 2, 3, TsWhole, PreApply) : f \in {0, COMPRESS_LZ4}}
\* further headers: other timestamps, and the ones validation rejects
OtherHeaders ==
    {MkHeader(0, 1, 3, TsSubMs, None), MkHeader(0, 1, 3, TsHuge, None),
     MkHeader(0, 1, 1, TsBefore, None), MkHeader(0, 3, 2, TsWhole, PreApply),
     MkHeader(0, 1, 3, TsWhole, PreApply), MkHeader(0, 2, 3, TsWhole, None),
     MkHeader(0, 3, 2, TsBefore, None)}
Headers == SessionHeaders \cup OtherHeaders
\* page contents: all zero, or a ramp; a buffer one byte short
Ramp(n) == [i \in 1..n |-> (7 * i + 1) % 256]
PageData(page_size) == {Zeros(page_size), Ramp(page_size), Zeros(page_size - 1)}
\* page numbers: 1..MaxPageNum and the lock page
PageNums(e) == {U32(n) : n \in 1..MaxPageNum} \cup {lock_page(e.page_size)}
\* page numbers around the lock page: the one before it up to LockWindow after it, and page 1
NearLockPageNums(e) ==
    {U32(ToNat(lock_page(e.page_size)) + k) : k \in (0 - 1)..LockWindow} \cup {PageNum_ONE}
\* the post-apply checksums given to finish
PostApply == {Checksum_new(U64(6)), Checksum_new(U64(7))}

(***************************************************************************)
(* State.                                                                  *)
(***************************************************************************)
VARIABLES
    sink,       \* the bytes the encoder session has written to its sink
    enc,        \* the Encoder: None before new and after a failed new
    encPhase,   \* "idle", "live", "finished" (finish consumed it) or "failed"
    encHdr,     \* the Header given to Encoder::new
    encCall,    \* the last encoder call with its result
    accepted,   \* the pages encode_page accepted, in call order: [page_num, data]
    tamper,     \* what happens to the file between the sessions: None or Some(<<offset, bit>>)
    src,        \* the byte source given to Decoder::new
    dec,        \* the Decoder
    decPhase,   \* "idle", "live", "finished" or "failed"
    decHdr,     \* the Header Decoder::new returned
    decCall,    \* the last decoder call with its result
    decoded,    \* the pages decode_page returned, in call order: [page_num, data]
    tcall,      \* the last call of an operation of a value type (types.rs), with its result
    wrap        \* a checksum wrapper (CrcDigestWrite or CrcDigestRead) over a stream of its own

encVars == <<sink, enc, encPhase, encHdr, encCall, accepted>>
decVars == <<src, dec, decPhase, decHdr, decCall, decoded>>
\* the state outside the two sessions
sideVars == <<tcall, wrap>>
vars == <<sink, enc, encPhase, encHdr, encCall, accepted, tamper,
          src, dec, decPhase, decHdr, decCall, decoded, tcall, wrap>>
\* no operation of a value type called yet
NoTypeCall == [op |-> "none", args |-> <<>>, res |-> Ok(<<>>)]
\* no wrapper made yet.  dir: "write" or "read"; pc: 0 between calls, 1 inside a call
\* after its first statement; buf: what the caller has still to write, or what the source
\* has still to give; n: the count the inner stream returned in the call; inner: the
\* bytes the inner stream has accepted, or has returned; digest: the register; fed: the
\* bytes given to the digest; res: the result of the last call
NoWrap == [dir |-> "none", pc |-> 0, buf |-> <<>>, n |-> 0, inner |-> <<>>,
           digest |-> Digest_new, fed |-> <<>>, res |-> Ok(0)]
SideIdle == tcall = NoTypeCall /\ wrap = NoWrap

\* a call: the operation, its page number (encode_page: the argument; decode_page: the
\* result), the length of the buffer given, the encoder's last_page_num before the
\* call, the checksum given to finish, and the result
Call(op, page_num, len, last, checksum, res) ==
    [op |-> op, page_num |-> page_num, len |-> len, last |-> last, checksum |-> checksum,
     res |-> res]
NoCall == Call("none", None, 0, None, None, Ok(<<>>))

DecoderIdle ==
    /\ src = <<>>
    /\ dec = None
    /\ decPhase = "idle"
    /\ decHdr = None
    /\ decCall = NoCall
    /\ decoded = <<>>

\* no session exists yet
Init ==
    /\ sink = <<>>
    /\ enc = None
    /\ encPhase = "idle"
    /\ encHdr = None
    /\ encCall = NoCall
    /\ accepted = <<>>
    /\ tamper = None
    /\ DecoderIdle
    /\ SideIdle

(***************************************************************************)
(* The encoder session.                                                    *)
(***************************************************************************)
EncoderNew(hdr) ==
    /\ encPhase = "idle"
    /\ \E o \in {Encoder_new(sink, hdr)} :
           /\ sink' = o.sink
           /\ enc' = o.enc
           /\ encPhase' = IF o.res.ok THEN "live" ELSE "failed"
           /\ encCall' = Call("new", None, 0, None, None, o.res)
    /\ encHdr' = Some(hdr)
    /\ UNCHANGED <<sideVars, accepted, tamper, decVars>>

EncodePage(page_num, data) ==
    /\ encPhase = "live"
    /\ \E o \in {Encoder_encode_page(Unwrap(enc), sink, page_num, data)} :
           /\ o.res.ok => Len(accepted) < MaxPages
           /\ sink' = o.sink
           /\ enc' = Some(o.enc)
           /\ encCall' = Call("encode_page", Some(page_num), Len(data),
                              Unwrap(enc).last_page_num, None, o.res)
           /\ accepted' = IF o.res.ok
                          THEN Append(accepted, [page_num |-> page_num, data |-> data])
                          ELSE accepted
    /\ UNCHANGED <<sideVars, encPhase, encHdr, tamper, decVars>>

EncoderFinish(post_apply_checksum) ==
    /\ encPhase = "live"
    /\ \E o \in {Encoder_finish(Unwrap(enc), sink, post_apply_checksum)} :
           /\ sink' = o.sink
           /\ enc' = Some(o.enc)
           /\ encCall' = Call("finish", None, 0, Unwrap(enc).last_page_num,
                              Some(post_apply_checksum), o.res)
    /\ encPhase' = "finished"
    /\ UNCHANGED <<sideVars, encHdr, accepted, tamper, decVars>>

(***************************************************************************)
(* Between the sessions: the finished file reaches the decoder as written, *)
(* or with one bit flipped.                                                *)
(***************************************************************************)
\* bit `bit` of the byte at offset `off` (from 0) flipped
FlipBit(bytes, off, bit) ==
    [bytes EXCEPT ![off + 1] = IF (@ \div (2 ^ bit)) % 2 = 1 THEN @ - 2 ^ bit ELSE @ + 2 ^ bit]
Tampered(bytes, t) ==
    IF IsNone(t) THEN bytes ELSE <<>> \o FlipBit(bytes, Unwrap(t)[1], Unwrap(t)[2])

Tamper(t) ==
    /\ encPhase = "finished"
    /\ decPhase = "idle"
    /\ tamper = None
    /\ tamper' = Some(t)
    /\ UNCHANGED <<sideVars, encVars, decVars>>

(***************************************************************************)
(* The decoder session, over the file the encoder session finished.        *)
(***************************************************************************)
DecoderNew ==
    /\ encPhase = "finished"
    /\ decPhase = "idle"
    /\ \E o \in {Decoder_new(Tampered(sink, tamper))} :
           /\ src' = Tampered(sink, tamper)
           /\ dec' = o.dec
           /\ decPhase' = IF o.res.ok THEN "live" ELSE "failed"
           /\ decHdr' = IF o.res.ok THEN Some(ValOf(o.res)) ELSE None
           /\ decCall' = Call("new", None, 0, None, None,
                              IF o.res.ok THEN Ok(<<>>) ELSE o.res)
    /\ UNCHANGED <<sideVars, encVars, tamper, decoded>>

\* decode_page where all sessions update one digest: the encoder's digest becomes the
\* decoder's
DecodePage_shared_digest(len) ==
    /\ decPhase = "live"
    /\ \E o \in {Decoder_decode_page(Unwrap(dec), src, len)} :
           /\ dec' = Some(o.dec)
           /\ decCall' = Call("decode_page", IF o.res.ok THEN ValOf(o.res) ELSE None, len,
                              None, None, IF o.res.ok THEN Ok(<<>>) ELSE o.res)
           /\ decoded' = IF o.res.ok /\ IsSome(ValOf(o.res))
                         THEN Append(decoded, [page_num |-> Unwrap(ValOf(o.res)),
                                               data |-> o.data])
                         ELSE decoded
           /\ enc' = IF encPhase = "live" THEN Some([Unwrap(enc) EXCEPT !.digest = o.dec.digest])
                     ELSE enc
    /\ UNCHANGED <<sideVars, sink, encPhase, encHdr, encCall, accepted, tamper, src,
                   decPhase, decHdr>>

DecodePage(len) ==
    /\ decPhase = "live"
    /\ \E o \in {Decoder_decode_page(Unwrap(dec), src, len)} :
           /\ dec' = Some(o.dec)
           /\ decCall' = Call("decode_page", IF o.res.ok THEN ValOf(o.res) ELSE None, len,
                              None, None, IF o.res.ok THEN Ok(<<>>) ELSE o.res)
           /\ decoded' = IF o.res.ok /\ IsSome(ValOf(o.res))
                         THEN Append(decoded, [page_num |-> Unwrap(ValOf(o.res)),
                                               data |-> o.data])
                         ELSE decoded
    /\ UNCHANGED <<sideVars, encVars, tamper, src, decPhase, decHdr>>

DecoderFinish ==
    /\ decPhase = "live"
    /\ \E o \in {Decoder_finish(Unwrap(dec), src)} :
           /\ dec' = Some([Unwrap(dec) EXCEPT !.digest = o.digest])
           /\ decCall' = Call("finish", None, 0, None, None, o.res)
    /\ decPhase' = "finished"
    /\ UNCHANGED <<sideVars, encVars, tamper, src, decHdr, decoded>>

(***************************************************************************)
(* Spec: an encoder session and then a decoder session over its file.      *)
(***************************************************************************)
Next ==
    \/ \E hdr \in Headers : EncoderNew(hdr)
    \/ /\ encPhase = "live"
       /\ \E page_num \in PageNums(Unwrap(enc)), data \in PageData(Unwrap(enc).page_size) :
              EncodePage(page_num, data)
    \/ \E c \in PostApply : EncoderFinish(c)
    \/ DecoderNew
    \/ /\ decPhase = "live"
       /\ \E len \in {Unwrap(dec).page_size, Unwrap(dec).page_size - 1} : DecodePage(len)
    \/ DecoderFinish

Spec == Init /\ [][Next]_vars

(***************************************************************************)
(* SpecNearLock: encoder sessions around the lock page.  A snapshot        *)
(* session reaches the lock page only through every page before it, so the *)
(* session is taken up where its last page is shortly before the lock      *)
(* page: the state after Encoder::new with that last_page_num.  The pages  *)
(* in between are left out of sink, digest, fed and accepted, none of      *)
(* which validate_page_num reads.                                          *)
(***************************************************************************)
NearLockHeaders == {MkHeader(0, 1, 1, TsWhole, None), MkHeader(0, 2, 3, TsWhole, PreApply)}
\* the last page of the session taken up: none yet (a new session), or, in a snapshot,
\* a page shortly before the lock page
NearLockLast(hdr) ==
    {None} \cup (IF is_snapshot(hdr)
                 THEN {Some(U32(ToNat(lock_page(hdr.page_size)) - k)) : k \in 1..LockWindow}
                 ELSE {})
InitNearLock ==
    /\ \E hdr \in NearLockHeaders :
       \E last \in NearLockLast(hdr) :
           /\ encHdr = Some(hdr)
           /\ enc = Some([Unwrap(Encoder_new(<<>>, hdr).enc) EXCEPT !.last_page_num = last])
           /\ sink = Encoder_new(<<>>, hdr).sink
    /\ encPhase = "live"
    /\ encCall = NoCall
    /\ accepted = <<>>
    /\ tamper = None
    /\ DecoderIdle
    /\ SideIdle
NextNearLock ==
    \/ \E page_num \in NearLockPageNums(Unwrap(enc)),
          data \in PageData(Unwrap(enc).page_size) : EncodePage(page_num, data)
    \/ \E c \in PostApply : EncoderFinish(c)
SpecNearLock == InitNearLock /\ [][NextNearLock]_vars

(***************************************************************************)
(* SpecFlip: as Spec, over short files, and one bit of the finished file   *)
(* may flip before the decoder session reads it.                           *)
(***************************************************************************)
FlipHeaders ==
    {MkHeader(0, 1, 1, TsWhole, None), MkHeader(0, 2, 3, TsWhole, PreApply),
     MkHeader(COMPRESS_LZ4, 1, 1, TsWhole, None), MkHeader(0, 3, 2, TsWhole, PreApply),
     MkHeader(0, 1, 3, TsWhole, PreApply), MkHeader(0, 2, 3, TsWhole, None)}
\* the bits that flip: the lowest and the highest of a byte
FlipBits == {0, 7}
\* the bytes that flip: the first HeadWindow bytes, the end of the header and the
\* start of what follows it, and the last TailWindow bytes
FlipOffsets(bytes) ==
    {off \in 0..(Len(bytes) - 1) :
        \/ off < HeadWindow
        \/ off >= HEADER_SIZE - 1 /\ off < HEADER_SIZE + MidWindow
        \/ off >= Len(bytes) - TailWindow}
NextFlip ==
    \/ \E hdr \in FlipHeaders : EncoderNew(hdr)
    \/ /\ encPhase = "live"
       /\ EncodePage(PageNum_ONE, Ramp(Unwrap(enc).page_size))
    \/ \E c \in PostApply : EncoderFinish(c)
    \/ \E off \in FlipOffsets(sink), bit \in FlipBits : Tamper(<<off, bit>>)
    \/ DecoderNew
    \/ /\ decPhase = "live"
       /\ DecodePage(Unwrap(dec).page_size)
    \/ DecoderFinish
SpecFlip == Init /\ [][NextFlip]_vars

(***************************************************************************)
(* SpecEarlyFinish: as Spec, where either session may call finish at any   *)
(* point: a snapshot whose commit is within reach of the pages encoded,    *)
(* pages in the upper half of the page number range, and page contents     *)
(* that a caller is free to choose, among them one whose record reads as a *)
(* Trailer.                                                                *)
(***************************************************************************)
EarlyHeaders ==
    {MkHeader(0, 2, 3, TsWhole, PreApply), MkHeader(COMPRESS_LZ4, 2, 3, TsWhole, PreApply),
     [MkHeader(0, 1, 1, TsWhole, None) EXCEPT !.commit = U32(MaxPages)]}
\* PageNum 0x80000001
HighPageNum == <<1, 0, 0, 128>>
\* a page whose record, the page number HighPageNum and then this data, starts with
\* the 16 bytes of a Trailer: its post_apply_checksum the page number and four zero
\* bytes, its file_checksum the checksum of the header and those eight bytes
TrailerLikePage(hdr) ==
    <<0, 0, 0, 0>>
    \o to_be_bytes(Checksum_new(Crc64(ValOf(Header_encode_into(hdr))
                                      \o to_be_bytes(HighPageNum) \o <<0, 0, 0, 0>>)))
    \o Zeros(hdr.page_size - 12)
NextEarlyFinish ==
    \/ \E hdr \in EarlyHeaders : EncoderNew(hdr)
    \/ /\ encPhase = "live"
       /\ \E page_num \in {PageNum_ONE, U32(2), HighPageNum},
             data \in {Ramp(Unwrap(enc).page_size), TrailerLikePage(Unwrap(encHdr))} :
              EncodePage(page_num, data)
    \/ \E c \in PostApply : EncoderFinish(c)
    \/ DecoderNew
    \/ /\ decPhase = "live"
       /\ DecodePage(Unwrap(dec).page_size)
    \/ DecoderFinish
SpecEarlyFinish == Init /\ [][NextEarlyFinish]_vars

(***************************************************************************)
(* SpecHeader: the header on its own.  Encoder::new writes the header of   *)
(* one of many Headers and Decoder::new reads it back; or Decoder::new     *)
(* reads 100 bytes that come from elsewhere, each field of them valid or   *)
(* not.                                                                    *)
(***************************************************************************)
\* Decoder::new on a source that holds the given bytes
DecoderNewOn(bytes) ==
    /\ decPhase = "idle"
    /\ \E o \in {Decoder_new(bytes)} :
           /\ src' = bytes
           /\ dec' = o.dec
           /\ decPhase' = IF o.res.ok THEN "live" ELSE "failed"
           /\ decHdr' = IF o.res.ok THEN Some(ValOf(o.res)) ELSE None
           /\ decCall' = Call("new", None, 0, None, None,
                              IF o.res.ok THEN Ok(<<>>) ELSE o.res)
    /\ UNCHANGED <<sideVars, encVars, tamper, decoded>>
\* timestamps: the epoch itself, and the last one whose milliseconds fit 64 bits
TsEpoch == SystemTime(U64(0) \o <<0>>, 0, FALSE)
TsLast == SystemTime(<<255, 255, 255, 255, 255, 255, 255, 255, 0>>, 0, FALSE)
\* pre-apply checksums: Checksum::new of 0, of 5 and of u64::MAX
PreApplyChecksums ==
    {Some(Checksum_new(U64(0))), PreApply,
     Some(Checksum_new(<<255, 255, 255, 255, 255, 255, 255, 255>>))}
\* min_txid, max_txid and pre_apply_checksum: of snapshots, of incremental files, and
\* the combinations that validation rejects
TXIDCases ==
    {<<1, 1, None>>, <<1, 3, None>>}
    \cup {<<2, 3, pre>> : pre \in PreApplyChecksums}
    \cup {<<3, 2, PreApply>>, <<1, 1, PreApply>>, <<2, 3, None>>}
CodecHeaders ==
    {[flags |-> U32(f), page_size |-> ps, commit |-> commit,
      min_txid |-> U64(t[1]), max_txid |-> U64(t[2]), timestamp |-> ts,
      pre_apply_checksum |-> t[3]] :
        f \in {0, COMPRESS_LZ4},
        ps \in {MIN_PAGE_SIZE, 4096, MAX_PAGE_SIZE},
        commit \in {PageNum_ONE, U32(MaxPageNum), <<255, 255, 255, 255>>},
        t \in TXIDCases,
        ts \in {TsEpoch, TsWhole, TsLast, TsHuge, TsSubMs, TsBefore}}
\* 100 bytes with the given fields, as big-endian numbers, and zero padding
HeaderBytesOf(magic, flags, page_size, commit, min_txid, max_txid, pre) ==
    magic \o to_be_bytes(U32(flags)) \o to_be_bytes(U32(page_size))
    \o to_be_bytes(U32(commit)) \o to_be_bytes(U64(min_txid)) \o to_be_bytes(U64(max_txid))
    \o to_be_bytes(Take(TsWhole.millis, 8)) \o to_be_bytes(pre) \o Zeros(HEADER_SIZE - 48)
HeaderBytes ==
    {HeaderBytesOf(magic, flags, page_size, commit, min_txid, max_txid, pre) :
        magic \in {MAGIC, <<76, 84, 88, 50>>},
        flags \in {0, COMPRESS_LZ4, 2, 3},
        page_size \in {MIN_PAGE_SIZE, MAX_PAGE_SIZE, 256, 768, 131072},
        commit \in {0, MaxPageNum},
        min_txid \in {0, 1, 2},
        max_txid \in {0, 1, 3},
        pre \in {U64(0), U64(5), Unwrap(PreApply)}}
NextHeader ==
    \/ /\ decPhase = "idle"
       /\ \E hdr \in CodecHeaders : EncoderNew(hdr)
    \/ \E c \in PostApply : EncoderFinish(c)
    \/ /\ encPhase = "live"
       /\ DecoderNewOn(sink)
    \/ /\ encPhase = "idle"
       /\ \E bytes \in HeaderBytes : DecoderNewOn(bytes)
SpecHeader == Init /\ [][NextHeader]_vars

(***************************************************************************)
(* SpecTypes: the operations of the value types, each called on values     *)
(* from the ends and the middle of its domain.                             *)
(***************************************************************************)
\* a ^ b, b ^ a, (a ^ b) ^ c and a ^ (b ^ c)
ChecksumBitXor(a, b, c) ==
    /\ tcall' = [op |-> "Checksum::bitxor", args |-> <<a, b, c>>,
                 res |-> Ok([ab |-> Checksum_bitxor(a, b), ba |-> Checksum_bitxor(b, a),
                             ab_c |-> Checksum_bitxor(Checksum_bitxor(a, b), c),
                             a_bc |-> Checksum_bitxor(a, Checksum_bitxor(b, c))])]
    /\ UNCHANGED <<encVars, tamper, decVars, wrap>>
PageSizeNew(s) ==
    /\ tcall' = [op |-> "PageSize::new", args |-> <<s>>, res |-> PageSize_new(s)]
    /\ UNCHANGED <<encVars, tamper, decVars, wrap>>
TXIDAdd(txid, rhs) ==
    /\ \E o \in TXID_add_outcomes(txid, rhs) :
           tcall' = [op |-> "TXID::add", args |-> <<txid, rhs>>, res |-> o]
    /\ UNCHANGED <<encVars, tamper, decVars, wrap>>
PageNumAdd(p, rhs) ==
    /\ \E o \in PageNum_add_outcomes(p, rhs) :
           tcall' = [op |-> "PageNum::add", args |-> <<p, rhs>>, res |-> o]
    /\ UNCHANGED <<encVars, tamper, decVars, wrap>>
\* Trailer::decode_from of 16 bytes, and Trailer::encode_into of the Trailer it returns
TrailerDecode(buf) ==
    /\ tcall' = [op |-> "Trailer::decode_from", args |-> <<buf>>,
                 res |-> Ok([trailer |-> Trailer_decode_from(buf),
                             bytes |-> IF Trailer_decode_from(buf).ok
                                       THEN Trailer_encode_into(ValOf(Trailer_decode_from(buf)))
                                       ELSE <<>>])]
    /\ UNCHANGED <<encVars, tamper, decVars, wrap>>
\* PageHeader::encode_into, and PageHeader::decode_from of the bytes it wrote
PageHeaderCodec(ph) ==
    /\ tcall' = [op |-> "PageHeader::encode_into", args |-> <<ph>>,
                 res |-> Ok([bytes |-> PageHeader_encode_into(ph),
                             back |-> PageHeader_decode_from(PageHeader_encode_into(ph))])]
    /\ UNCHANGED <<encVars, tamper, decVars, wrap>>
\* PageNum::lock_page, and validate_page_num of page 1 in a new snapshot session of
\* that page size
LockPage(page_size) ==
    /\ tcall' = [op |-> "PageNum::lock_page", args |-> <<page_size>>,
                 res |-> Ok([lock |-> lock_page(page_size),
                             first |-> validate_page_num(
                                           [page_size |-> page_size, is_snapshot |-> TRUE,
                                            last_page_num |-> None], PageNum_ONE)])]
    /\ UNCHANGED <<encVars, tamper, decVars, wrap>>
U32_MAX == <<255, 255, 255, 255>>
U64_MAX == <<255, 255, 255, 255, 255, 255, 255, 255>>
SomeU32 == {U32(0), U32(1), U32(2), U32(MaxPageNum), <<254, 255, 255, 255>>, U32_MAX}
SomeU64 == {U64(0), U64(1), U64(2), U64(MaxPageNum),
            <<254, 255, 255, 255, 255, 255, 255, 255>>, U64_MAX}
\* checksums: of 0, of 5, of u64::MAX, and the checksums of two pages
SomeChecksums ==
    {Checksum_new(U64(0)), Unwrap(PreApply), Checksum_new(U64_MAX),
     page_checksum(Ramp(MIN_PAGE_SIZE), PageNum_ONE),
     page_checksum(Zeros(MIN_PAGE_SIZE), U32(2))}
\* u32 values around the page sizes
SomePageSizes ==
    {U32(n) : n \in {0, 1, 2, 256, 511, 513, 768, 1536, 65535, 65537, 66048, 98304, 131072}}
    \cup {U32(2 ^ k) : k \in 8..17} \cup {<<0, 0, 0, 128>>, U32_MAX}
NextTypes ==
    \/ \E a \in SomeChecksums, b \in SomeChecksums, c \in SomeChecksums :
           ChecksumBitXor(a, b, c)
    \/ \E s \in SomePageSizes : PageSizeNew(s)
    \/ \E txid \in SomeU64 \ {U64(0)}, rhs \in SomeU64 : TXIDAdd(txid, rhs)
    \/ \E p \in SomeU32 \ {U32(0)}, rhs \in SomeU32 : PageNumAdd(p, rhs)
    \/ \E a \in SomeU64 \cup SomeChecksums, b \in SomeU64 \cup SomeChecksums :
           TrailerDecode(to_be_bytes(a) \o to_be_bytes(b))
    \/ \E ph \in {None} \cup {Some(n) : n \in (SomeU32 \cup {U32(256), U32(65536)}) \ {U32(0)}} :
           PageHeaderCodec(ph)
    \/ \E k \in 9..16 : LockPage(2 ^ k)
SpecTypes == Init /\ [][NextTypes]_vars

(***************************************************************************)
(* SpecTruncated: the decoder session reads the file the encoder session   *)
(* finished, whole or cut short somewhere after the header: inside a page  *)
(* header, inside a page, between two records, inside the sentinel, inside *)
(* the frame of a compressed file.                                         *)
(***************************************************************************)
TruncatedHeaders ==
    {MkHeader(0, 1, 1, TsWhole, None), MkHeader(COMPRESS_LZ4, 2, 3, TsWhole, PreApply)}
\* the lengths a file is cut to
CutPoints(bytes) ==
    {k \in HEADER_SIZE..Len(bytes) :
        \/ (k - HEADER_SIZE) % (PAGE_HEADER_SIZE + MIN_PAGE_SIZE) <= CutWindow
        \/ Len(bytes) - TRAILER_SIZE - k \in 0..CutWindow
        \/ k = Len(bytes)}
NextTruncated ==
    \/ \E hdr \in TruncatedHeaders : EncoderNew(hdr)
    \/ /\ encPhase = "live"
       /\ \E page_num \in {PageNum_ONE, U32(2)},
             data \in {Ramp(Unwrap(enc).page_size), Zeros(Unwrap(enc).page_size)} :
              EncodePage(page_num, data)
    \/ EncoderFinish(Checksum_new(U64(6)))
    \/ /\ encPhase = "finished"
       /\ \E k \in CutPoints(sink) : DecoderNewOn(Take(sink, k))
    \/ /\ decPhase = "live"
       /\ DecodePage(Unwrap(dec).page_size)
SpecTruncated == Init /\ [][NextTruncated]_vars

(***************************************************************************)
(* SpecPair: two sessions at once, over streams of their own.  An encoder  *)
(* session writes its sink while a decoder session reads a file that was   *)
(* finished before; their calls interleave in every order.                 *)
(***************************************************************************)
\* a session run on its own: Encoder::new, then encode_page for each of the pages
RECURSIVE EncodeAll(_, _, _)
EncodeAll(o, pages, i) ==
    IF i > Len(pages) THEN o
    ELSE EncodeAll(Encoder_encode_page(o.enc, o.sink, pages[i].page_num, pages[i].data),
                   pages, i + 1)
SoloEncoder(hdr, pages) ==
    Bind(Encoder_new(<<>>, hdr), LAMBDA o :
        EncodeAll([res |-> o.res, enc |-> Unwrap(o.enc), sink |-> o.sink], pages, 1))
\* ... and then finish
SoloFile(hdr, pages, post_apply_checksum) ==
    Bind(SoloEncoder(hdr, pages), LAMBDA o : Encoder_finish(o.enc, o.sink, post_apply_checksum))
\* the pages of the files the decoder session reads
PairPages ==
    {<<[page_num |-> U32(2), data |-> Ramp(MIN_PAGE_SIZE)]>>,
     <<[page_num |-> PageNum_ONE, data |-> Zeros(MIN_PAGE_SIZE)],
       [page_num |-> U32(MaxPageNum), data |-> Ramp(MIN_PAGE_SIZE)]>>}
\* the files the decoder session reads
PairFiles ==
    {SoloFile(MkHeader(f, 2, 3, TsWhole, PreApply), pages, Checksum_new(U64(7))).sink :
        f \in {0, COMPRESS_LZ4}, pages \in PairPages}
NextPair ==
    \/ \E hdr \in TruncatedHeaders : EncoderNew(hdr)
    \/ /\ encPhase = "live"
       /\ \E page_num \in {PageNum_ONE, U32(2)} :
              EncodePage(page_num, Ramp(Unwrap(enc).page_size))
    \/ EncoderFinish(Checksum_new(U64(6)))
    \/ \E bytes \in PairFiles : DecoderNewOn(bytes)
    \/ /\ decPhase = "live"
       /\ DecodePage(Unwrap(dec).page_size)
    \/ DecoderFinish
SpecPair == Init /\ [][NextPair]_vars

(***************************************************************************)
(* SpecWrapper: a checksum wrapper on its own, over an inner stream that   *)
(* may accept or return fewer bytes than asked, or fail.  The caller       *)
(* writes a buffer as write_all does, calling write on what remains, or    *)
(* reads a source to its end.  A call is two steps, the statements of the  *)
(* function: pc tells which has run.                                       *)
(***************************************************************************)
\* the buffer of tests::crc_digest_write
WrapBuffer == <<1, 2, 3, 4, 5, 6, 7, 8, 9, 10>>
\* the lengths of the buffers given to read
WrapReadLens == {1, 3, 16}
WrapNew(dir) ==
    /\ wrap.dir = "none"
    /\ wrap' = [wrap EXCEPT !.dir = dir, !.buf = WrapBuffer]
    /\ UNCHANGED <<encVars, tamper, decVars, tcall>>
\* write(buf): the inner stream accepts the first n bytes, then the digest is updated
WrapWrite(n) ==
    /\ wrap.dir = "write"
    /\ wrap.buf # <<>>
    /\ IF wrap.pc = 0 THEN n \in 0..Len(wrap.buf) ELSE n = wrap.n
    /\ wrap' = CrcDigestWrite_write(wrap, n)
    /\ UNCHANGED <<encVars, tamper, decVars, tcall>>
\* read(buf): the inner stream returns n bytes, none only at its end, then the digest
\* is updated
WrapRead(len, n) ==
    /\ wrap.dir = "read"
    /\ wrap.res.ok
    /\ wrap.res = Ok(0) => wrap.buf # <<>>
    /\ IF wrap.pc = 0
       THEN n \in 0..Min(len, Len(wrap.buf)) /\ (n = 0 => wrap.buf = <<>>)
       ELSE n = wrap.n
    /\ wrap' = CrcDigestRead_read(wrap, n)
    /\ UNCHANGED <<encVars, tamper, decVars, tcall>>
\* the inner stream fails: `?` returns the error from the first statement
WrapFail ==
    /\ wrap.dir \in {"write", "read"}
    /\ wrap.pc = 0
    /\ wrap.res.ok
    /\ wrap.buf # <<>>
    /\ wrap' = [wrap EXCEPT !.res = Err(<<"Io">>), !.buf = <<>>]
    /\ UNCHANGED <<encVars, tamper, decVars, tcall>>
NextWrapper ==
    \/ \E dir \in {"write", "read"} : WrapNew(dir)
    \/ \E n \in 0..Len(WrapBuffer) : WrapWrite(n)
    \/ \E len \in WrapReadLens, n \in 0..Len(WrapBuffer) : WrapRead(len, n)
    \/ WrapFail
SpecWrapper == Init /\ [][NextWrapper]_vars

(***************************************************************************)
(* Properties of encode_page's page number rules.  A call record holds the *)
(* page number given, the buffer length, and last_page_num before the call.*)
(***************************************************************************)
SnapshotSession == IsSome(encHdr) /\ Unwrap(encHdr).min_txid = U64(1)
IncrementalSession == IsSome(encHdr) /\ Less(U64(1), Unwrap(encHdr).min_txid)
EncodePageCalled == encCall.op = "encode_page"
CallPage == ToNat(Unwrap(encCall.page_num))
CallLast == ToNat(Unwrap(encCall.last))
CallSized == encCall.len = Unwrap(encHdr).page_size
LockPageNum == PENDING_BYTE \div Unwrap(encHdr).page_size + 1

\* C2: in a snapshot session whose last accepted page is one before the lock page,
\* encode_page(last + 2, data) with a buffer of page_size bytes is accepted.
C2_LockPageSkipAccepted ==
    (SnapshotSession /\ EncodePageCalled /\ IsSome(encCall.last)
        /\ CallLast + 1 = LockPageNum /\ CallPage = CallLast + 2 /\ CallSized)
    => encCall.res.ok

\* C3: in a snapshot session, after page last and with last + 1 not the lock page,
\* encode_page(p) for a p other than the lock page is accepted only if p = last + 1
\* (and is accepted then, given a buffer of page_size bytes), and every other such p
\* is rejected with NonsequentialPages(last, p); the accepted page numbers of a
\* snapshot session are 1, 2, ..., k.
C3_SnapshotContiguity ==
    SnapshotSession =>
        /\ \A i \in 1..Len(accepted) : ToNat(accepted[i].page_num) = i
        /\ (EncodePageCalled /\ IsSome(encCall.last) /\ CallLast + 1 # LockPageNum
                /\ CallPage # LockPageNum)
           => /\ encCall.res.ok => CallPage = CallLast + 1
              /\ (CallPage = CallLast + 1 /\ CallSized) => encCall.res.ok
              /\ CallPage # CallLast + 1
                 => encCall.res.err = <<"NonsequentialPages", Unwrap(encCall.last),
                                        Unwrap(encCall.page_num)>>
C3_Witness ==
    /\ SnapshotSession
    /\ encCall.res.err = <<"NonsequentialPages", U32(1), U32(3)>>
    /\ Len(accepted) = 1

\* C4: in a session that is no snapshot, the first page may be any page other than
\* the lock page; a later encode_page(p), p not the lock page, is accepted iff
\* p > last (given a buffer of page_size bytes), and p <= last is rejected with
\* OutOfOrderPage(last, p); the accepted page numbers are strictly increasing.
C4_IncrementalOrdering ==
    IncrementalSession =>
        /\ \A i \in 1..Len(accepted) : \A j \in 1..Len(accepted) :
               i < j => ToNat(accepted[i].page_num) < ToNat(accepted[j].page_num)
        /\ (EncodePageCalled /\ CallPage # LockPageNum)
           => /\ (IsNone(encCall.last) /\ CallSized) => encCall.res.ok
              /\ IsSome(encCall.last)
                 => /\ encCall.res.ok => CallPage > CallLast
                    /\ (CallPage > CallLast /\ CallSized) => encCall.res.ok
                    /\ CallPage <= CallLast
                       => encCall.res.err = <<"OutOfOrderPage", Unwrap(encCall.last),
                                              Unwrap(encCall.page_num)>>
C4_Witness ==
    /\ IncrementalSession
    /\ encCall.res.err = <<"OutOfOrderPage", U32(2), U32(2)>>

\* C5: encode_page of the lock page fails with LockPage(page_num) in a snapshot and
\* in an incremental session, as the first page or later, whatever the ordering rule
\* would say and whatever the buffer; the lock page is never among the accepted pages.
C5_LockPageRejected ==
    /\ \A i \in 1..Len(accepted) : ToNat(accepted[i].page_num) # LockPageNum
    /\ (EncodePageCalled /\ CallPage = LockPageNum)
       => encCall.res.err = <<"LockPage", Unwrap(encCall.page_num)>>
\* the lock page given after a higher page, where the ordering rule alone would
\* answer OutOfOrderPage
C5_Witness ==
    /\ IncrementalSession
    /\ EncodePageCalled
    /\ IsSome(encCall.last)
    /\ CallLast > LockPageNum
    /\ encCall.res.err = <<"LockPage", Unwrap(encCall.page_num)>>

\* C6: in a snapshot session with no page accepted, encode_page(p) for a p other than
\* the lock page is accepted iff p = 1 (given a buffer of page_size bytes); any other
\* p is rejected with FirstSnapshotPage and the encoder still has no last page.
C6_FirstSnapshotPage ==
    (SnapshotSession /\ EncodePageCalled /\ IsNone(encCall.last) /\ CallPage # LockPageNum)
    => /\ encCall.res.ok => CallPage = 1
       /\ (CallPage = 1 /\ CallSized) => encCall.res.ok
       /\ CallPage # 1
          => /\ encCall.res.err = <<"FirstSnapshotPage">>
             /\ IsNone(Unwrap(enc).last_page_num)
             /\ accepted = <<>>
C6_Witness ==
    /\ SnapshotSession
    /\ EncodePageCalled
    /\ CallPage = 3
    /\ encCall.res.err = <<"FirstSnapshotPage">>

(***************************************************************************)
(* Properties of the file as a whole.                                      *)
(***************************************************************************)
\* the Trailer Encoder::finish returned
EncTrailer == ValOf(encCall.res)
CompressedSession == Flags_compressed(Unwrap(encHdr).flags)
\* the page records of the accepted pages: page number, then data, one after another
RECURSIVE PageRecords(_)
PageRecords(pages) ==
    IF pages = <<>> THEN <<>>
    ELSE to_be_bytes(Head(pages).page_num) \o Head(pages).data \o PageRecords(Tail(pages))
\* what a finished session handed to its writer before the Trailer: the header, the
\* page records, the sentinel, none of it compressed
Logical ==
    ValOf(Header_encode_into(Unwrap(encHdr))) \o PageRecords(accepted) \o <<0, 0, 0, 0>>
\* a timestamp at or after the epoch, of whole milliseconds, that many fitting 64 bits
WholeMillis(hdr) ==
    /\ ~hdr.timestamp.before_epoch
    /\ hdr.timestamp.sub_ms_nanos = 0
    /\ hdr.timestamp.millis[9] = 0
Prefix(a, b) == Len(a) <= Len(b) /\ \A i \in 1..Len(a) : a[i] = b[i]
\* the decoder session gives back what the encoder session was given
RoundTrip ==
    /\ decPhase # "failed"
    /\ decHdr = encHdr
    /\ Prefix(decoded, accepted)
    /\ (decCall.op = "decode_page" /\ decCall.len = Unwrap(encHdr).page_size)
       => decCall.res.ok
    /\ Unwrap(dec).pages_done => decoded = accepted
    /\ (decCall.op = "finish" /\ Unwrap(dec).pages_done)
       => decCall.res.ok /\ ValOf(decCall.res) = EncTrailer

\* C1 as stated: for any header Encoder::new accepts and any pages encode_page accepts,
\* decoding the finished file gives the identical Header, the identical pages in
\* order, then end-of-pages, then the encoder's Trailer, compressed or not.
C1_RoundTripAnyHeader == decPhase # "idle" => RoundTrip
\* C1: the round trip holds for the headers whose timestamp is a whole number of
\* milliseconds since the epoch that fits 64 bits.
C1_RoundTrip == (decPhase # "idle" /\ WholeMillis(Unwrap(encHdr))) => RoundTrip
C1_Witness ==
    /\ decPhase = "finished"
    /\ CompressedSession
    /\ Unwrap(dec).pages_done
    /\ Len(decoded) = 2
    /\ decCall.res.ok

FinishReader == LTXReader_finish(Unwrap(dec).r, src)
FinishTrailerRead == Slice_read_exact(src, FinishReader.pos, TRAILER_SIZE)
FinishTrailer == Trailer_decode_from(FinishTrailerRead.bytes)
TrailerDecoded ==
    FinishReader.err = <<>> /\ FinishTrailerRead.err = <<>> /\ FinishTrailer.ok
\* the checksum of every byte read through the checksum wrapper, then the 8 bytes of
\* the Trailer's post_apply_checksum
SeenChecksum ==
    Checksum_new(Crc64(Unwrap(dec).seen
                       \o to_be_bytes(ValOf(FinishTrailer).post_apply_checksum)))

FlipOff == Unwrap(tamper)[1]
\* the flipped byte lies in the header's fields, in the payload of a page of a file
\* written without compression, in the Trailer
InHeaderFields == FlipOff < 48
InPayload ==
    /\ ~CompressedSession
    /\ \E i \in 1..Len(accepted) :
           /\ FlipOff >= HEADER_SIZE + (i - 1) * (PAGE_HEADER_SIZE + Unwrap(encHdr).page_size)
                         + PAGE_HEADER_SIZE
           /\ FlipOff < HEADER_SIZE + i * (PAGE_HEADER_SIZE + Unwrap(encHdr).page_size)
InTrailer == FlipOff >= Len(sink) - TRAILER_SIZE
\* the flipped bit is the highest bit of one of the Trailer's two fields
TrailerTopBit ==
    Unwrap(tamper)[2] = 7 /\ FlipOff \in {Len(sink) - TRAILER_SIZE, Len(sink) - 8}
FlipInScope == IsSome(tamper) /\ (InHeaderFields \/ InPayload \/ InTrailer)
FinishedAfterPages == decCall.op = "finish" /\ Unwrap(dec).pages_done

ValidTXIDs(min_txid, max_txid, pre_apply_checksum) ==
    /\ ~Less(max_txid, min_txid)
    /\ IsNone(pre_apply_checksum) <=> min_txid = U64(1)
ValidHeader(hdr) == ValidTXIDs(hdr.min_txid, hdr.max_txid, hdr.pre_apply_checksum)
\* the min_txid, max_txid and pre_apply_checksum fields of the source's first 100 bytes
SrcMinTXID == from_be_bytes(SubSeq(src, 17, 24))
SrcMaxTXID == from_be_bytes(SubSeq(src, 25, 32))
SrcPreApply == IF IsZero(from_be_bytes(SubSeq(src, 41, 48))) THEN None ELSE Some(<<>>)

\* C10: Header::validate succeeds iff min_txid <= max_txid and (pre_apply_checksum is
\* absent iff min_txid = 1); min_txid > max_txid gives TXIDOrder(min, max), a snapshot
\* with a pre-apply checksum PreApplyChecksumOnSnapshot, a non-snapshot without one
\* NoPreApplyChecksum.  Encoder::new and Decoder::new apply it: Encoder::new fails on a
\* header that violates it, Decoder::new fails on a source whose header fields violate
\* it, and the header of every session satisfies it.
C10_HeaderInvariant ==
    /\ IsSome(encHdr)
       => /\ Header_validate(Unwrap(encHdr)).ok <=> ValidHeader(Unwrap(encHdr))
          /\ Less(Unwrap(encHdr).max_txid, Unwrap(encHdr).min_txid)
             => Header_validate(Unwrap(encHdr)).err
                    = <<"TXIDOrder", Unwrap(encHdr).min_txid, Unwrap(encHdr).max_txid>>
          /\ (~Less(Unwrap(encHdr).max_txid, Unwrap(encHdr).min_txid)
                /\ Unwrap(encHdr).min_txid = U64(1)
                /\ IsSome(Unwrap(encHdr).pre_apply_checksum))
             => Header_validate(Unwrap(encHdr)).err = <<"PreApplyChecksumOnSnapshot">>
          /\ (~Less(Unwrap(encHdr).max_txid, Unwrap(encHdr).min_txid)
                /\ Unwrap(encHdr).min_txid # U64(1)
                /\ IsNone(Unwrap(encHdr).pre_apply_checksum))
             => Header_validate(Unwrap(encHdr)).err = <<"NoPreApplyChecksum">>
          /\ encPhase \in {"live", "finished"} => ValidHeader(Unwrap(encHdr))
    /\ decPhase \in {"live", "finished"}
       => /\ ValidHeader(Unwrap(decHdr))
          /\ ValidTXIDs(SrcMinTXID, SrcMaxTXID, SrcPreApply)
\* Decoder::new refusing a source whose header fields violate the invariant
C10_Witness ==
    /\ decPhase = "failed"
    /\ ~ValidTXIDs(SrcMinTXID, SrcMaxTXID, SrcPreApply)
    /\ decCall.res.err = <<"Header", "Validation", "PreApplyChecksumOnSnapshot">>

(***************************************************************************)
(* Properties of the decoder session's steps.  A step of decode_page leaves *)
(* the session live; dec is the Decoder before it, dec' the Decoder after   *)
(* it, decCall' the call and its result.                                   *)
(***************************************************************************)
DecodePageStep == decPhase = "live" /\ decPhase' = "live"
WrongSize == decCall.op = "decode_page" /\ decCall.len # Unwrap(dec).page_size
NoMorePages == decCall.res.ok /\ IsNone(decCall.page_num)

\* C11 as stated: decode_page tests the buffer length first: in every decoder state,
\* also after end-of-pages, a call whose buffer length differs from page_size fails
\* with InvalidBufferSize.
C11_SizeCheckedFirst ==
    WrongSize
    => decCall.res = Err(<<"InvalidBufferSize", decCall.len, Unwrap(dec).page_size>>)
\* C11: decode_page tests pages_done first and the buffer length second: after
\* end-of-pages a call answers "no more pages" whatever the length of its buffer;
\* before it, a call whose buffer length differs from page_size fails with
\* InvalidBufferSize(len, page_size); in both cases the decoder is left as it was.
C11_SizeCheckedSecond ==
    [][DecodePageStep
       => /\ Unwrap(dec).pages_done
             => decCall'.res.ok /\ IsNone(decCall'.page_num) /\ dec' = dec
          /\ (~Unwrap(dec).pages_done /\ decCall'.len # Unwrap(dec).page_size)
             => /\ decCall'.res
                     = Err(<<"InvalidBufferSize", decCall'.len, Unwrap(dec).page_size>>)
                /\ dec' = dec]_vars
\* a buffer one byte short after end-of-pages: "no more pages"
C11_Witness == WrongSize /\ Unwrap(dec).pages_done /\ NoMorePages

\* C12: a decode_page call that answers "no more pages" leaves pages_done true; from
\* then on pages_done stays true, each decode_page call answers "no more pages",
\* and the reader, the digest and the pages returned are left as they were; finish
\* after it, the file being as it was written, returns the encoder's Trailer.
C12_PagesDoneSticks ==
    /\ [](decCall.op = "decode_page" /\ NoMorePages => Unwrap(dec).pages_done)
    /\ []((decCall.op = "finish" /\ Unwrap(dec).pages_done /\ IsNone(tamper))
          => decCall.res = Ok(EncTrailer))
    /\ [][(IsSome(dec) /\ Unwrap(dec).pages_done)
          => /\ Unwrap(dec').pages_done
             /\ Unwrap(dec').r = Unwrap(dec).r
             /\ decoded' = decoded
             /\ DecodePageStep
                => /\ decCall'.res.ok /\ IsNone(decCall'.page_num)
                   /\ Unwrap(dec').digest = Unwrap(dec).digest
                   /\ Unwrap(dec').seen = Unwrap(dec).seen]_vars
\* finish returning the Trailer after end-of-pages of a compressed file
C12_Witness ==
    /\ decCall.op = "finish"
    /\ Unwrap(dec).pages_done
    /\ CompressedSession
    /\ Len(decoded) = 2
    /\ decCall.res = Ok(EncTrailer)

\* C13: Decoder::finish returns Ok(trailer) only in a session in which decode_page
\* has read the sentinel: pages_done is true whenever finish has succeeded.
C13_FinishOnlyWhenDone ==
    (decCall.op = "finish" /\ decCall.res.ok) => Unwrap(dec).pages_done

(***************************************************************************)
(* Properties of the encoder's output.                                     *)
(***************************************************************************)
\* the length of a page record, and the offset in the output of the record of the
\* i-th accepted page (from 1; the one after the last is where the sentinel goes)
RecordSize == PAGE_HEADER_SIZE + Unwrap(encHdr).page_size
RecordOffset(i) == HEADER_SIZE + (i - 1) * RecordSize
EncodePageStep == encPhase = "live" /\ encPhase' = "live"

\* C14: the output of a finished session without compression is the 100 bytes of the
\* header, then for each accepted page in call order its nonzero page number in 4
\* big-endian bytes and its page_size bytes of data, then 4 zero bytes, then the 16
\* bytes of the Trailer, 100 + n * (4 + page_size) + 4 + 16 bytes in all; an
\* encode_page call that is rejected adds nothing to the output, one that is
\* accepted adds one record.
C14_OutputFraming ==
    /\ []((encPhase = "finished" /\ ~CompressedSession)
          => /\ Len(sink) = HEADER_SIZE + Len(accepted) * RecordSize
                            + PAGE_HEADER_SIZE + TRAILER_SIZE
             /\ SubSeq(sink, 1, HEADER_SIZE) = ValOf(Header_encode_into(Unwrap(encHdr)))
             /\ \A i \in 1..Len(accepted) :
                    /\ SubSeq(sink, RecordOffset(i) + 1, RecordOffset(i) + PAGE_HEADER_SIZE)
                           = Reverse(accepted[i].page_num)
                    /\ ~IsZero(accepted[i].page_num)
                    /\ Len(accepted[i].data) = Unwrap(encHdr).page_size
                    /\ SubSeq(sink, RecordOffset(i) + PAGE_HEADER_SIZE + 1,
                              RecordOffset(i + 1)) = accepted[i].data
             /\ SubSeq(sink, RecordOffset(Len(accepted) + 1) + 1,
                       RecordOffset(Len(accepted) + 1) + PAGE_HEADER_SIZE) = <<0, 0, 0, 0>>
             /\ SubSeq(sink, Len(sink) - TRAILER_SIZE + 1, Len(sink))
                    = Reverse(EncTrailer.post_apply_checksum)
                      \o Reverse(EncTrailer.file_checksum))
    /\ [][EncodePageStep
          => /\ ~encCall'.res.ok => sink' = sink /\ accepted' = accepted
             /\ (encCall'.res.ok /\ ~CompressedSession)
                => Len(sink') = Len(sink) + RecordSize]_vars
\* a finished session without compression that holds two pages
C14_Witness ==
    /\ encPhase = "finished"
    /\ ~CompressedSession
    /\ Len(accepted) = 2
    /\ Len(sink) = HEADER_SIZE + 2 * RecordSize + PAGE_HEADER_SIZE + TRAILER_SIZE

\* C15: the file of a successfully finished snapshot session (min_txid 1) holds all
\* pages from the first one up to commit, in increasing order.
C15_SnapshotComplete ==
    (encCall.op = "finish" /\ encCall.res.ok /\ SnapshotSession)
    => /\ U32(Len(accepted)) = Unwrap(encHdr).commit
       /\ \A i \in 1..Len(accepted) : accepted[i].page_num = U32(i)

\* the page number of the call passes the page number rules: it is not the lock page;
\* in a snapshot it is 1 with no page before it and last + 1 after page last; in an
\* incremental session it is greater than the last page
PageNumAcceptable ==
    /\ CallPage # LockPageNum
    /\ SnapshotSession
       => IF IsNone(encCall.last) THEN CallPage = 1 ELSE CallPage = CallLast + 1
    /\ ~SnapshotSession => (IsNone(encCall.last) \/ CallLast < CallPage)
PageNumErrors == {"LockPage", "FirstSnapshotPage", "NonsequentialPages", "OutOfOrderPage"}
BufferSizeError == <<"InvalidBufferSize", encCall.len, Unwrap(encHdr).page_size>>
\* the name of the error of a result, "" for Ok
ErrName(res) == IF res.err = <<>> THEN "" ELSE res.err[1]

\* C16: encode_page with data whose length differs from page_size is rejected: with
\* InvalidBufferSize(len, page_size) when the page number passes the page number
\* rules, with the page number's error when it does not; InvalidBufferSize is
\* returned in no other case, and the call that returns it leaves the output and
\* the encoder as they were.
C16_BufferSizeAfterPageNum ==
    /\ []((EncodePageCalled /\ ~CallSized)
          => /\ ~encCall.res.ok
             /\ PageNumAcceptable => encCall.res.err = BufferSizeError
             /\ ~PageNumAcceptable => ErrName(encCall.res) \in PageNumErrors)
    /\ []((EncodePageCalled /\ ErrName(encCall.res) = "InvalidBufferSize")
          => ~CallSized /\ PageNumAcceptable /\ encCall.res.err = BufferSizeError)
    /\ [][(EncodePageStep /\ ErrName(encCall'.res) = "InvalidBufferSize")
          => sink' = sink /\ enc' = enc /\ accepted' = accepted]_vars
\* a call that breaks both rules reports the page number
C16_Witness ==
    /\ EncodePageCalled
    /\ ~CallSized
    /\ IsSome(encCall.last)
    /\ CallPage < CallLast
    /\ encCall.res.err = <<"OutOfOrderPage", Unwrap(encCall.last), Unwrap(encCall.page_num)>>

\* the offset in the output at which the data of the frame's block starts: after the
\* header, the frame header and the size of the block
BlockDataOffset == HEADER_SIZE + Len(LZ4_FRAME_HEADER) + Len(LZ4_END_MARK)

\* C17: the output of a finished compressed session is the header, then a frame
\* whose data is the page records and, last, the sentinel, then the frame's end
\* mark, then the 16 bytes of the Trailer, not compressed.  Decoder::finish on such
\* a file returns the encoder's Trailer once the sentinel has been read, reading the
\* end mark first; while data remains in the frame it fails with the read error
\* "expected lz4 end frame" and decodes no Trailer.
C17_EndOfFrameOrdering ==
    /\ (encPhase = "finished" /\ CompressedSession)
       => /\ SubSeq(sink, HEADER_SIZE + 1, HEADER_SIZE + Len(LZ4_FRAME_HEADER))
                 = LZ4_FRAME_HEADER
          /\ SubSeq(sink, BlockDataOffset + 1,
                    Len(sink) - TRAILER_SIZE - Len(LZ4_END_MARK))
                 = PageRecords(accepted) \o <<0, 0, 0, 0>>
          /\ SubSeq(sink, Len(sink) - TRAILER_SIZE - Len(LZ4_END_MARK) + 1,
                    Len(sink) - TRAILER_SIZE) = LZ4_END_MARK
          /\ SubSeq(sink, Len(sink) - TRAILER_SIZE + 1, Len(sink))
                 = Reverse(EncTrailer.post_apply_checksum)
                   \o Reverse(EncTrailer.file_checksum)
    /\ (decCall.op = "finish" /\ CompressedSession /\ IsNone(tamper))
       => /\ Unwrap(dec).pages_done => decCall.res = Ok(EncTrailer)
          /\ ~Unwrap(dec).pages_done
             => decCall.res = Err(<<"Read", "expected lz4 end frame">>)
\* finish called with one of two pages decoded
C17_Witness ==
    /\ decCall.op = "finish"
    /\ CompressedSession
    /\ Len(accepted) = 2
    /\ Len(decoded) = 1
    /\ decCall.res = Err(<<"Read", "expected lz4 end frame">>)

(***************************************************************************)
(* Properties of the header codec and of Checksum.  The fields are read    *)
(* off the source's first 100 bytes.                                       *)
(***************************************************************************)
SrcMagicOk == SubSeq(src, 1, 4) = <<76, 84, 88, 49>>
SrcFlagsOk == SubSeq(src, 5, 7) = <<0, 0, 0>> /\ src[8] \in {0, 1}
\* the page size is one of 512, 1024, ..., 65536
SrcPageSizeOk ==
    /\ src[9] = 0
    /\ src[10] \in {0, 1}
    /\ src[10] * 65536 + src[11] * 256 + src[12] \in {2 ^ k : k \in 9..16}
SrcCommitOk == SubSeq(src, 13, 16) # <<0, 0, 0, 0>>
SrcMinTXIDOk == ~IsZero(SrcMinTXID)
SrcMaxTXIDOk == ~IsZero(SrcMaxTXID)
SrcCrossFieldOk == ValidTXIDs(SrcMinTXID, SrcMaxTXID, SrcPreApply)
\* the first field, in the order of the bytes, that is not valid
FirstOffending ==
    IF ~SrcMagicOk THEN "Magic"
    ELSE IF ~SrcFlagsOk THEN "Flags"
    ELSE IF ~SrcPageSizeOk THEN "PageSize"
    ELSE IF ~SrcCommitOk THEN "Commit"
    ELSE IF ~SrcMinTXIDOk THEN "MinTXID"
    ELSE IF ~SrcMaxTXIDOk THEN "MaxTXID"
    ELSE IF ~SrcCrossFieldOk THEN "Validation"
    ELSE ""
DecoderNewCalled == decCall.op = "new"

\* C18: Decoder::new on 100 bytes succeeds iff the magic is "LTX1", no flag bit other
\* than bit 0 is set, the page size is a power of two in 512..65536, commit, min_txid
\* and max_txid are not 0, and the cross-field invariant holds; otherwise it gives no
\* decoder and fails with the header error of the first field, in the order of the
\* bytes, that is not valid: Magic, Flags, PageSize, Commit, MinTXID, MaxTXID,
\* Validation.
C18_HeaderFieldErrors ==
    DecoderNewCalled
    => /\ decCall.res.ok <=> FirstOffending = ""
       /\ decCall.res.ok => decPhase = "live" /\ IsSome(dec) /\ IsSome(decHdr)
       /\ ~decCall.res.ok
          => /\ decPhase = "failed" /\ IsNone(dec) /\ IsNone(decHdr)
             /\ SubSeq(decCall.res.err, 1, 2) = <<"Header", FirstOffending>>
\* unknown flag bits and a zero commit in the same header: the flags are reported
C18_Witness ==
    /\ DecoderNewCalled
    /\ SrcMagicOk
    /\ ~SrcFlagsOk
    /\ ~SrcCommitOk
    /\ decCall.res.err = <<"Header", "Flags", <<2, 0, 0, 0>>>>

\* the header has been written and no more: the output is what Header::encode_into gave
HeaderWritten == encCall.op = "new" /\ encCall.res.ok
\* a valid Header with a timestamp at or after the epoch, of whole milliseconds
ValidWholeMs(hdr) ==
    ValidHeader(hdr) /\ ~hdr.timestamp.before_epoch /\ hdr.timestamp.sub_ms_nanos = 0
HeaderRoundTrip ==
    /\ encPhase # "failed"
    /\ HeaderWritten => Len(sink) = HEADER_SIZE
    /\ IsNone(Unwrap(encHdr).pre_apply_checksum)
       => SubSeq(sink, 41, 48) = <<0, 0, 0, 0, 0, 0, 0, 0>>
    /\ (DecoderNewCalled /\ src = sink) => decCall.res.ok /\ decHdr = encHdr

\* C19 as stated: for every valid Header whose timestamp is a whole number of
\* milliseconds at or after the epoch, Header::encode_into writes 100 bytes, None as
\* 0, and Header::decode_from of them returns a Header equal to it.
C19_AnyWholeMsRoundTrip ==
    (IsSome(encHdr) /\ ValidWholeMs(Unwrap(encHdr))) => HeaderRoundTrip
\* C19: the same, for the timestamps whose milliseconds since the epoch fit 64 bits.
C19_HeaderRoundTrip ==
    (IsSome(encHdr) /\ ValidWholeMs(Unwrap(encHdr))
        /\ Unwrap(encHdr).timestamp.millis[9] = 0)
    => HeaderRoundTrip
\* the last timestamp that fits, the largest page size and commit, a checksum of all ones
C19_Witness ==
    /\ DecoderNewCalled
    /\ src = sink
    /\ decHdr = encHdr
    /\ Unwrap(encHdr).timestamp = TsLast
    /\ Unwrap(encHdr).page_size = MAX_PAGE_SIZE
    /\ Unwrap(encHdr).commit = <<255, 255, 255, 255>>
    /\ Unwrap(encHdr).flags = U32(COMPRESS_LZ4)
    /\ IsSome(Unwrap(encHdr).pre_apply_checksum)

\* the most significant bit of a u64 is set
TopBitSet(v) == v[8] >= 128
\* c is s with the most significant bit set
FlagSet(s, c) == TopBitSet(c) /\ c[8] % 128 = s[8] % 128 /\ SubSeq(c, 1, 7) = SubSeq(s, 1, 7)
SrcPreApplyField == from_be_bytes(SubSeq(src, 41, 48))

\* C20: every Checksum has its most significant bit set: the pre-apply checksum of a
\* Header given to the encoder, the one Decoder::new makes of a nonzero field (the
\* field with that bit set), and both checksums of the Trailer; so the field of an
\* encoded header is 0 iff the Header has no pre-apply checksum, and it decodes to
\* none iff it is 0.
C20_ChecksumTopBit ==
    /\ (IsSome(encHdr) /\ IsSome(Unwrap(encHdr).pre_apply_checksum))
       => TopBitSet(Unwrap(Unwrap(encHdr).pre_apply_checksum))
    /\ encPhase \in {"live", "finished"}
       => (IsZero(SubSeq(sink, 41, 48)) <=> IsNone(Unwrap(encHdr).pre_apply_checksum))
    /\ (encCall.op = "finish")
       => TopBitSet(EncTrailer.file_checksum) /\ TopBitSet(EncTrailer.post_apply_checksum)
    /\ decPhase = "live"
       => /\ IsNone(Unwrap(decHdr).pre_apply_checksum) <=> IsZero(SrcPreApplyField)
          /\ IsSome(Unwrap(decHdr).pre_apply_checksum)
             => FlagSet(SrcPreApplyField, Unwrap(Unwrap(decHdr).pre_apply_checksum))
\* Checksum::new(0) as the pre-apply checksum: the field holds 2^63
C20_Witness ==
    /\ encPhase = "live"
    /\ SubSeq(sink, 41, 48) = <<128, 0, 0, 0, 0, 0, 0, 0>>
    /\ decPhase = "live"
    /\ Unwrap(decHdr).pre_apply_checksum = Some(<<0, 0, 0, 0, 0, 0, 0, 128>>)

(***************************************************************************)
(* Properties of the value types.                                          *)
(***************************************************************************)
\* C21: for checksums a, b and c, a ^ b is a Checksum (its most significant bit is
\* set), a ^ b = b ^ a and (a ^ b) ^ c = a ^ (b ^ c); below the flag the result is the
\* exclusive or of the operands.
C21_XorClosedCommutative ==
    tcall.op = "Checksum::bitxor"
    => /\ TopBitSet(ValOf(tcall.res).ab)
       /\ TopBitSet(ValOf(tcall.res).ab_c)
       /\ ValOf(tcall.res).ab = ValOf(tcall.res).ba
       /\ ValOf(tcall.res).ab_c = ValOf(tcall.res).a_bc
       /\ \A i \in 1..7 : ValOf(tcall.res).ab[i] = Xor8(tcall.args[1][i], tcall.args[2][i])
       /\ ValOf(tcall.res).ab[8] = Xor8(tcall.args[1][8], tcall.args[2][8]) + 128
\* the checksums of two different pages, and a third checksum
C21_Witness ==
    /\ tcall.op = "Checksum::bitxor"
    /\ tcall.args[1] = page_checksum(Ramp(MIN_PAGE_SIZE), PageNum_ONE)
    /\ tcall.args[2] = page_checksum(Zeros(MIN_PAGE_SIZE), U32(2))
    /\ tcall.args[3] = Checksum_new(U64_MAX)
    /\ ValOf(tcall.res).ab # tcall.args[1]

\* C22: PageSize::new(s) succeeds iff s is one of 512, 1024, ..., 65536, and gives
\* PageSizeError(s) for every other s, 0 among them.
C22_PageSizeNew ==
    tcall.op = "PageSize::new"
    => /\ tcall.res.ok <=> tcall.args[1] \in {U32(2 ^ k) : k \in 9..16}
       /\ tcall.res.ok => U32(ValOf(tcall.res)) = tcall.args[1]
       /\ ~tcall.res.ok => tcall.res.err = <<"PageSizeError", tcall.args[1]>>
C22_Witness ==
    /\ tcall.op = "PageSize::new"
    /\ tcall.args = <<U32(0)>>
    /\ tcall.res.err = <<"PageSizeError", U32(0)>>

\* C23: TXID + u64 and PageNum + u32 return no value that is 0 and no value smaller
\* than the left operand: when the sum does not fit, the addition fails.
C23_AddNeverWraps ==
    (tcall.op \in {"TXID::add", "PageNum::add"} /\ tcall.res.ok)
    => /\ ~IsZero(ValOf(tcall.res))
       /\ ~Less(ValOf(tcall.res), tcall.args[1])

(***************************************************************************)
(* Properties of Encoder::new.                                             *)
(***************************************************************************)
EncHeaderBytes == ValOf(Header_encode_into(Unwrap(encHdr)))
\* the claim as the specification has it: the header of a compressed session goes
\* through the compression layer, so the session's output starts with the frame
C25_HeaderThroughCompression ==
    (encPhase \in {"live", "finished"} /\ CompressedSession)
    => /\ Unwrap(enc).w.frame_open
       /\ Take(sink, Len(LZ4_FRAME_HEADER)) = LZ4_FRAME_HEADER
\* C25: Encoder::new feeds the header's 100 bytes to the running digest and writes
\* them to the sink as they are, with or without the compression flag: the sink starts
\* with them, right after new the sink holds nothing else and the compression layer
\* has seen nothing, and the frame of a compressed session starts after the header.
C25_HeaderUncompressed ==
    /\ encPhase \in {"live", "finished"}
       => /\ Prefix(EncHeaderBytes, sink)
          /\ Prefix(EncHeaderBytes, Unwrap(enc).fed)
    /\ HeaderWritten
       => /\ sink = EncHeaderBytes
          /\ Unwrap(enc).digest = Digest_update(Digest_new, EncHeaderBytes)
          /\ ~Unwrap(enc).w.frame_open
          /\ Unwrap(enc).w.pending = <<>>
    /\ (encPhase = "finished" /\ CompressedSession)
       => Prefix(EncHeaderBytes \o LZ4_FRAME_HEADER, sink)
\* a finished compressed session with a page: the frame follows the header
C25_Witness ==
    /\ encPhase = "finished"
    /\ CompressedSession
    /\ Len(accepted) = 1
    /\ Take(sink, HEADER_SIZE) = EncHeaderBytes
    /\ SubSeq(sink, HEADER_SIZE + 1, HEADER_SIZE + Len(LZ4_FRAME_HEADER)) = LZ4_FRAME_HEADER

\* C28: an encode_page call that is rejected (LockPage, FirstSnapshotPage,
\* NonsequentialPages, OutOfOrderPage or InvalidBufferSize) changes nothing of the
\* session: the sink, the writer, the digest, the bytes fed to it and last_page_num are
\* as before the call, so that what follows starts from the state before it.
C28_RejectedPageNoEffect ==
    [][(EncodePageStep /\ ~encCall'.res.ok)
       => /\ ErrName(encCall'.res) \in PageNumErrors \cup {"InvalidBufferSize"}
          /\ enc' = enc
          /\ sink' = sink
          /\ accepted' = accepted
          /\ encHdr' = encHdr]_vars
\* a page of the wrong size, rejected after a page was accepted
C28_Witness ==
    /\ EncodePageCalled
    /\ ErrName(encCall.res) = "InvalidBufferSize"
    /\ Len(accepted) = 1
    /\ Unwrap(enc).last_page_num = Some(accepted[1].page_num)
    /\ encCall.page_num # Unwrap(enc).last_page_num

EncoderNewCalled == encCall.op = "new"
\* C29: Encoder::new fails exactly when the header's timestamp is before the Unix epoch
\* (Header(Timestamp)) or else its validation fails (Header(Validation(..)): TXIDOrder,
\* PreApplyChecksumOnSnapshot or NoPreApplyChecksum); it then returns no encoder and
\* the sink holds no byte.
C29_NewValidatesFirst ==
    EncoderNewCalled
    => /\ ~encCall.res.ok <=> (Unwrap(encHdr).timestamp.before_epoch \/ ~ValidHeader(Unwrap(encHdr)))
       /\ ~encCall.res.ok
          => /\ sink = <<>>
             /\ enc = None
             /\ encPhase = "failed"
             /\ encCall.res.err[1] = "Header"
             /\ IF Unwrap(encHdr).timestamp.before_epoch
                THEN encCall.res.err = <<"Header", "Timestamp">>
                ELSE /\ encCall.res.err[2] = "Validation"
                     /\ encCall.res.err[3] \in {"TXIDOrder", "PreApplyChecksumOnSnapshot",
                                                "NoPreApplyChecksum"}
\* a header that fails validation only, and one that has the timestamp before the epoch
C29_Witness ==
    /\ EncoderNewCalled
    /\ ~encCall.res.ok
    /\ ~Unwrap(encHdr).timestamp.before_epoch
    /\ encCall.res.err[3] = "PreApplyChecksumOnSnapshot"
    /\ sink = <<>>

(***************************************************************************)
(* Properties of the checksum wrappers.                                    *)
(***************************************************************************)
\* the digest of tests::crc_digest_write, 6672316476627126589
WrapTestDigest == <<61, 137, 88, 234, 123, 212, 152, 92>>
\* C26: between the calls of a checksum wrapper, whatever the counts the inner stream
\* accepted or returned in each call (short ones and zero among them) and if it failed,
\* the digest is the checksum of the bytes the inner stream accepted (write) or
\* returned (read), each byte fed once and in order; these bytes are the start of the
\* caller's buffer or of the source.
C26_EveryByteOnce ==
    (wrap.dir \in {"write", "read"} /\ wrap.pc = 0)
    => /\ wrap.digest = Digest_update(Digest_new, wrap.inner)
       /\ wrap.fed = wrap.inner
       /\ wrap.res.ok => wrap.inner \o wrap.buf = WrapBuffer
       /\ Prefix(wrap.inner, WrapBuffer)
\* the buffer of the test, written in more than one call, the last of 7 bytes
C26_Witness ==
    /\ wrap.dir = "write"
    /\ wrap.pc = 0
    /\ wrap.res = Ok(7)
    /\ wrap.inner = WrapBuffer
    /\ Digest_finalize(wrap.digest) = WrapTestDigest

\* the claim as the specification has it: on write the digest has the bytes before the
\* inner stream has them, on read after
C27_WriteDigestFirst ==
    /\ wrap.dir = "write" => Prefix(wrap.inner, wrap.fed)
    /\ wrap.dir = "read" => Prefix(wrap.fed, wrap.inner)
\* C27: in both wrappers the inner stream comes first: at every point the bytes fed to
\* the digest are a prefix of the bytes the inner stream has accepted (write) or
\* returned (read), and inside a call the digest is behind by the bytes of that call.
C27_InnerStreamFirst ==
    wrap.dir \in {"write", "read"}
    => /\ Prefix(wrap.fed, wrap.inner)
       /\ wrap.pc = 1 => Len(wrap.inner) = Len(wrap.fed) + wrap.n
\* inside a write call: the inner stream has 3 bytes the digest has not
C27_Witness ==
    /\ wrap.dir = "write"
    /\ wrap.pc = 1
    /\ wrap.n = 3
    /\ Len(wrap.inner) = 6
    /\ Len(wrap.fed) = 3

(***************************************************************************)
(* Properties of decode_page at the end of the source.                     *)
(***************************************************************************)
\* the source ended during the last decode_page call
HitEndOfSource ==
    /\ decCall.op = "decode_page"
    /\ ErrName(decCall.res) \in {"PageHeader", "Read"}
    /\ decCall.res.err[Len(decCall.res.err)] = "UnexpectedEof"
\* C30: decode_page first returns None only when the four bytes it has just read as a
\* page header are zero, and pages_done is set only then; when the source ends inside
\* a page header or inside a page, decode_page returns a read error (PageHeader(Read)
\* or Read, UnexpectedEof), pages_done stays false, and every later call fails again.
C30_SentinelOnly ==
    /\ [](decPhase = "live" /\ Unwrap(dec).pages_done
          => /\ Len(Unwrap(dec).seen) >= HEADER_SIZE + PAGE_HEADER_SIZE
             /\ Drop(Unwrap(dec).seen, Len(Unwrap(dec).seen) - PAGE_HEADER_SIZE)
                    = Zeros(PAGE_HEADER_SIZE)
             /\ (Len(Unwrap(dec).seen) - HEADER_SIZE - PAGE_HEADER_SIZE)
                    % (PAGE_HEADER_SIZE + Unwrap(dec).page_size) = 0)
    /\ [][DecodePageStep
          => /\ (decCall'.res.ok /\ IsNone(decCall'.page_num)) <=> Unwrap(dec').pages_done
             /\ ~decCall'.res.ok => ~Unwrap(dec').pages_done
             /\ (~Unwrap(dec).r.compressed /\ ~Unwrap(dec).pages_done)
                => LET left == Len(src) - Unwrap(dec).r.pos
                       head == SubSeq(src, Unwrap(dec).r.pos + 1,
                                      Unwrap(dec).r.pos + PAGE_HEADER_SIZE)
                   IN  /\ left < PAGE_HEADER_SIZE
                          => decCall'.res.err = <<"PageHeader", "Read", "UnexpectedEof">>
                       /\ (left >= PAGE_HEADER_SIZE /\ ~IsZero(head)
                           /\ left < PAGE_HEADER_SIZE + Unwrap(dec).page_size)
                          => decCall'.res.err = <<"Read", "UnexpectedEof">>
             /\ (HitEndOfSource /\ ~Unwrap(dec).pages_done)
                => HitEndOfSource' /\ decoded' = decoded]_vars
\* a file cut inside its second page, all zero: the first page is returned, the second
\* call fails
C30_Witness ==
    /\ HitEndOfSource
    /\ decCall.res.err = <<"Read", "UnexpectedEof">>
    /\ Len(decoded) = 1
    /\ ~Unwrap(dec).pages_done
    /\ Len(accepted) = 2
    /\ accepted[2].data = Zeros(MIN_PAGE_SIZE)
    /\ Len(src) = HEADER_SIZE + PAGE_HEADER_SIZE + MIN_PAGE_SIZE + CutWindow

(***************************************************************************)
(* Properties of sessions that run at the same time.                       *)
(***************************************************************************)
\* a decoder on its own: Decoder::new and then n calls of decode_page
RECURSIVE DecodeN(_, _, _)
DecodeN(o, bytes, n) ==
    IF n = 0 THEN o
    ELSE Bind(Decoder_decode_page(o.dec, bytes, o.dec.page_size), LAMBDA p :
            DecodeN([dec |-> p.dec,
                     decoded |-> IF p.res.ok /\ IsSome(ValOf(p.res))
                                 THEN Append(o.decoded, [page_num |-> Unwrap(ValOf(p.res)),
                                                         data |-> p.data])
                                 ELSE o.decoded], bytes, n - 1))
SoloDecoder(bytes, n) ==
    DecodeN([dec |-> Unwrap(Decoder_new(bytes).dec), decoded |-> <<>>], bytes, n)
\* the decoder session is where a decoder on its own is after some number of calls
DecoderAsAlone ==
    \E n \in 0..(Len(decoded) + 1) :
        /\ decoded = SoloDecoder(src, n).decoded
        /\ IF decPhase = "live" THEN Unwrap(dec) = SoloDecoder(src, n).dec
           ELSE /\ decCall.res = Decoder_finish(SoloDecoder(src, n).dec, src).res
                /\ Unwrap(dec).digest = Decoder_finish(SoloDecoder(src, n).dec, src).digest
\* the encoder session is where an encoder on its own is after the accepted pages
EncoderAsAlone ==
    IF encPhase = "live"
    THEN /\ Unwrap(enc) = SoloEncoder(Unwrap(encHdr), accepted).enc
         /\ sink = SoloEncoder(Unwrap(encHdr), accepted).sink
    ELSE /\ sink = SoloFile(Unwrap(encHdr), accepted, Unwrap(encCall.checksum)).sink
         /\ encCall.res = SoloFile(Unwrap(encHdr), accepted, Unwrap(encCall.checksum)).res
         /\ Unwrap(enc).digest = SoloFile(Unwrap(encHdr), accepted, Unwrap(encCall.checksum)).enc.digest
C34_XorIdentityInverse ==
    tcall.op = "Checksum::bitxor"
    => /\ tcall.args[2] = Checksum_new(U64(0)) => ValOf(tcall.res).ab = tcall.args[1]
       /\ tcall.args[2] = tcall.args[1] => ValOf(tcall.res).ab = <<0, 0, 0, 0, 0, 0, 0, 128>>
       /\ tcall.args[3] = tcall.args[2] => ValOf(tcall.res).ab_c = tcall.args[1]
\* a page's checksum put into a running checksum and taken out again
C34_Witness ==
    /\ tcall.op = "Checksum::bitxor"
    /\ tcall.args[1] = Unwrap(PreApply)
    /\ tcall.args[2] = page_checksum(Ramp(MIN_PAGE_SIZE), PageNum_ONE)
    /\ tcall.args[3] = tcall.args[2]
    /\ ValOf(tcall.res).ab # tcall.args[1]
    /\ ValOf(tcall.res).ab_c = tcall.args[1]

TrailerBuf == tcall.args[1]
TrailerPostField == from_be_bytes(SubSeq(TrailerBuf, 1, 8))
TrailerFileField == from_be_bytes(SubSeq(TrailerBuf, 9, 16))
\* C32: Trailer::decode_from fails with PostApplyChecksum(v) when the first field lacks
\* the top bit, else with FileChecksum(v) when the second does, and else returns the
\* Trailer of the two fields, which Trailer::encode_into writes as the 16 bytes read;
\* so the Trailer of two checksums, its 16 bytes decoded, is returned as it was.
C32_TrailerCanonical ==
    tcall.op = "Trailer::decode_from"
    => /\ ValOf(tcall.res).trailer.ok <=> (TopBitSet(TrailerPostField) /\ TopBitSet(TrailerFileField))
       /\ ~TopBitSet(TrailerPostField)
          => ValOf(tcall.res).trailer.err = <<"PostApplyChecksum", TrailerPostField>>
       /\ (TopBitSet(TrailerPostField) /\ ~TopBitSet(TrailerFileField))
          => ValOf(tcall.res).trailer.err = <<"FileChecksum", TrailerFileField>>
       /\ ValOf(tcall.res).trailer.ok
          => /\ ValOf(tcall.res).bytes = TrailerBuf
             /\ ValOf(ValOf(tcall.res).trailer)
                    = [post_apply_checksum |-> TrailerPostField, file_checksum |-> TrailerFileField]
\* both fields lack the top bit: the first is reported
C32_Witness ==
    /\ tcall.op = "Trailer::decode_from"
    /\ TrailerPostField = U64(2)
    /\ TrailerFileField = U64(1)
    /\ ValOf(tcall.res).trailer.err = <<"PostApplyChecksum", U64(2)>>

\* C35: PageHeader(Some(n)) is written as the 4 big-endian bytes of n, not all zero,
\* and PageHeader(None) as 4 zero bytes; PageHeader::decode_from of the bytes written
\* returns the PageHeader.
C35_PageHeaderCodec ==
    tcall.op = "PageHeader::encode_into"
    => /\ Len(ValOf(tcall.res).bytes) = PAGE_HEADER_SIZE
       /\ IsNone(tcall.args[1]) <=> ValOf(tcall.res).bytes = Zeros(PAGE_HEADER_SIZE)
       /\ IsSome(tcall.args[1])
          => \A i \in 1..PAGE_HEADER_SIZE :
                 ValOf(tcall.res).bytes[i] = Unwrap(tcall.args[1])[PAGE_HEADER_SIZE + 1 - i]
       /\ ValOf(tcall.res).back = Ok(tcall.args[1])
\* page 256, whose low byte is 0
C35_Witness ==
    /\ tcall.op = "PageHeader::encode_into"
    /\ tcall.args[1] = Some(U32(256))
    /\ ValOf(tcall.res).bytes = <<0, 0, 1, 0>>
    /\ ValOf(tcall.res).back = Ok(Some(U32(256)))

\* C36: for every valid page size ps, lock_page(ps) is the number L with
\* (L - 1) * ps <= 0x40000000 < L * ps, that is 0x40000000 / ps + 1; it lies between
\* 16385 and 2097153, so it is not page 1, and page 1 is accepted as the first page of
\* a snapshot.
C36_LockPageValue ==
    tcall.op = "PageNum::lock_page"
    => /\ (ToNat(ValOf(tcall.res).lock) - 1) * tcall.args[1] <= PENDING_BYTE
       /\ ToNat(ValOf(tcall.res).lock) * tcall.args[1] > PENDING_BYTE
       /\ ToNat(ValOf(tcall.res).lock) \in 16385..2097153
       /\ tcall.args[1] = MAX_PAGE_SIZE => ToNat(ValOf(tcall.res).lock) = 16385
       /\ tcall.args[1] = MIN_PAGE_SIZE => ToNat(ValOf(tcall.res).lock) = 2097153
       /\ ValOf(tcall.res).lock # PageNum_ONE
       /\ ValOf(tcall.res).first = Ok(<<>>)
C36_Witness ==
    /\ tcall.op = "PageNum::lock_page"
    /\ tcall.args = <<4096>>
    /\ ValOf(tcall.res).lock = U32(262145)

\* the decoded Header written again by Header::encode_into
ReEncoded == Header_encode_into(Unwrap(decHdr))
\* C33: Header::decode_from takes the pre-apply checksum field as it comes: 0 gives
\* None, every other value v gives Some(Checksum::new(v)), with the top bit set whether
\* v had it or not, and a v without it is no error; the Header of such a v is written
\* again with the bit set, so not as the bytes read, while the Header of 0 or of a v
\* with the bit is written again as the bytes read.
C33_PreApplyLenient ==
    DecoderNewCalled
    => /\ (~IsZero(SrcPreApplyField) /\ ~TopBitSet(SrcPreApplyField)
           /\ SrcMagicOk /\ SrcFlagsOk /\ SrcPageSizeOk /\ SrcCommitOk /\ SrcMinTXIDOk
           /\ SrcMaxTXIDOk /\ SrcCrossFieldOk)
          => decCall.res.ok
       /\ decCall.res.ok
          => /\ Unwrap(decHdr).pre_apply_checksum
                    = IF IsZero(SrcPreApplyField) THEN None
                      ELSE Some([SrcPreApplyField EXCEPT ![8] = 128 + (@ % 128)])
             /\ ReEncoded.ok
             /\ SubSeq(ValOf(ReEncoded), 1, 40) = SubSeq(src, 1, 40)
             /\ ValOf(ReEncoded) = Take(src, HEADER_SIZE)
                    <=> (IsZero(SrcPreApplyField) \/ TopBitSet(SrcPreApplyField))
\* the field holds 5: the Header has Checksum::new(5) and is written again otherwise
C33_Witness ==
    /\ DecoderNewCalled
    /\ decCall.res.ok
    /\ SrcPreApplyField = U64(5)
    /\ Unwrap(decHdr).pre_apply_checksum = Some(<<5, 0, 0, 0, 0, 0, 0, 128>>)
    /\ SubSeq(ValOf(ReEncoded), 41, 48) = <<128, 0, 0, 0, 0, 0, 0, 5>>
    /\ ValOf(ReEncoded) # src

(***************************************************************************)
(* SpecWire: the decoder session reads files that no encoder session of    *)
(* this program wrote: a valid header, page records with page numbers in   *)
(* any order, the sentinel, and a Trailer with the checksum of the file.   *)
(***************************************************************************)
\* the page numbers on the wire
WirePageNums == {PageNum_ONE, U32(2), U32(MaxPageNum), lock_page(MIN_PAGE_SIZE), U32_MAX}
\* the file of a header, page records and post-apply checksum, written by the format
WireFile(hdr, pages, post_apply_checksum) ==
    Bind(PageRecords(pages) \o PageHeader_encode_into(None), LAMBDA body :
    Bind(LTXWriter_write(LTXWriter_new(Flags_compressed(hdr.flags)),
                         ValOf(Header_encode_into(hdr)), body), LAMBDA o :
        LTXWriter_finish(o.w, o.sink)
        \o Trailer_encode_into(
               [post_apply_checksum |-> post_apply_checksum,
                file_checksum |-> Checksum_new(Crc64(ValOf(Header_encode_into(hdr)) \o body
                                                     \o to_be_bytes(post_apply_checksum)))])))
WireFiles ==
    {WireFile(hdr, pages, Checksum_new(U64(6))) :
        hdr \in TruncatedHeaders,
        pages \in {<<>>}
                  \cup {<<[page_num |-> p, data |-> Ramp(MIN_PAGE_SIZE)]>> : p \in WirePageNums}
                  \cup {<<[page_num |-> p, data |-> Ramp(MIN_PAGE_SIZE)],
                          [page_num |-> q, data |-> Zeros(MIN_PAGE_SIZE)]>> :
                            p \in WirePageNums, q \in WirePageNums}}
NextWire ==
    \/ \E bytes \in WireFiles : DecoderNewOn(bytes)
    \/ /\ decPhase = "live"
       /\ DecodePage(Unwrap(dec).page_size)
    \/ DecoderFinish
SpecWire == Init /\ [][NextWire]_vars

\* the page records, sentinel and what follows, as the source holds them
WireBody == Drop(src, IF Unwrap(dec).r.compressed THEN BlockDataOffset ELSE HEADER_SIZE)
\* the pages returned break a rule of the encoder: the lock page, a snapshot that does
\* not start with page 1 or is not contiguous, numbers that do not ascend
BreaksEncoderRules ==
    \/ \E i \in 1..Len(decoded) : decoded[i].page_num = lock_page(Unwrap(dec).page_size)
    \/ Unwrap(decHdr).min_txid = TXID_ONE /\ Len(decoded) > 0 /\ decoded[1].page_num # PageNum_ONE
    \/ Len(decoded) = 2 /\ ~Less(decoded[1].page_num, decoded[2].page_num)
    \/ Unwrap(decHdr).min_txid = TXID_ONE /\ Len(decoded) = 2
       /\ decoded[2].page_num # PageNum_add(decoded[1].page_num, 1)
\* C31: decode_page returns the pages as they are on the wire, whatever their numbers:
\* on a complete file every call succeeds, be the numbers descending, repeated, not
\* contiguous in a snapshot or the lock page, and once the sentinel is read finish
\* succeeds with the Trailer of the file, its checksum matching.
C31_DecoderAcceptsAnyOrder ==
    /\ [](decPhase \in {"live", "finished"} => Prefix(PageRecords(decoded), WireBody))
    /\ [](decPhase = "live" /\ decCall.op = "decode_page" => decCall.res.ok)
    /\ []((decPhase = "live" /\ Unwrap(dec).pages_done)
          => Prefix(PageRecords(decoded) \o Zeros(PAGE_HEADER_SIZE), WireBody))
    /\ []((decCall.op = "finish" /\ Unwrap(dec).pages_done)
          => /\ decCall.res.ok
             /\ Trailer_encode_into(ValOf(decCall.res)) = Drop(src, Len(src) - TRAILER_SIZE))
\* a snapshot read to its end: the lock page, then page 1
C31_Witness ==
    /\ decCall.op = "finish"
    /\ decCall.res.ok
    /\ Unwrap(decHdr).min_txid = TXID_ONE
    /\ Len(decoded) = 2
    /\ decoded[1].page_num = lock_page(MIN_PAGE_SIZE)
    /\ decoded[2].page_num = PageNum_ONE
    /\ BreaksEncoderRules
====
